---- MODULE Spec2Model ----
(***************************************************************************)
(* Verification model of the RodioKt native core (rodio/src/main/rust).    *)
(*                                                                         *)
(*   SpecIcy : IcyMetadataReader (lib.rs) reading an interleaved stream    *)
(*             and parse_icy_metadata_block.                               *)
(*   Spec    : the player registry (state.rs) and the public session       *)
(*             operations of lib.rs, called from several threads.          *)
(*                                                                         *)
(* Bytes and characters are integers (byte values / code points); an       *)
(* Option<T> is the empty sequence (None) or a one-element sequence.       *)
(***************************************************************************)
EXTENDS Integers, Sequences, FiniteSets, TLC

VARIABLES
    \* ---- IcyMetadataReader<R> (lib.rs:88-93) and its environment ----
    inner,                 \* bytes the inner source has not yet yielded
    meta_interval,         \* Option<usize>
    remaining_until_meta,  \* usize
    delivered,             \* every byte returned to the caller so far
    metadata_events,       \* on_metadata(key, value) calls, in order
    read_result,           \* outcome of the last read call
    stream,                \* the whole inner stream as it was opened
    tags,                  \* tags[i]: role of stream[i] ("A", "L" or "M")
    blocks,                \* the metadata blocks the stream was built from
    \* ---- player registry (state.rs) and the threads calling into it ----
    NEXT_ID,               \* static NEXT_ID: AtomicU64
    players,               \* static PLAYERS: the HashMap<u64, PlayerState>
    locked,                \* whether the Mutex around PLAYERS is held
    streams,               \* thread_local STREAMS: per thread, the handles
                           \* whose OutputStream that thread's map holds
    thr,                   \* per thread: the call in progress and its locals
    calls,                 \* number of calls on a handle begun
    returned,              \* handles returned by create calls, in order
    destroyed,             \* handles for which destroy_player returned Ok
    \* ---- StreamReader / HlsStreamReader (lib.rs:139-324) ----
    pos,                   \* StreamReader.pos
    hls_reader,            \* the HlsStreamReader's fields
    server,                \* the media playlist the server publishes now
    hcall,                 \* the read call in progress on the HLS reader
    last_io,               \* requests and sleeps of the reader's last step
    hist,                  \* segments requested and bytes returned so far
    seek_result,           \* the request and answer of a seek just made
    \* ---- a pure function under check ----
    arg,                   \* the argument it is applied to
    ret,                   \* Option: the value it returned
    \* ---- HTTP options and requests (lib.rs:51-82, 545-571, 829-855) ----
    HTTP_OPTIONS,          \* static HTTP_OPTIONS: the HttpOptions and the
                           \* thread holding the Mutex around them
    http_thr,              \* per thread: the HTTP call in progress
    http_hist              \* calls begun, and every value the options held

icyVars == <<inner, meta_interval, remaining_until_meta, delivered,
             metadata_events, read_result, stream, tags, blocks, pos>>

hlsVars == <<hls_reader, server, hcall, last_io, hist>>

fnVars == <<arg, ret>>

httpVars == <<HTTP_OPTIONS, http_thr, http_hist>>

\* what the calls on the registry leave alone
readerVars == <<icyVars, hlsVars, seek_result, fnVars, httpVars>>

regVars == <<NEXT_ID, players, locked, streams, thr, calls, returned, destroyed>>

vars == <<icyVars, regVars, hlsVars, seek_result, fnVars, httpVars>>

(***************************************************************************)
(* Bounds                                                                  *)
(***************************************************************************)
MaxInterval == 2      \* largest icy-metaint tried
MaxBlocks == 2        \* metadata blocks per stream
MaxBuf == 3           \* largest caller buffer
MaxPlayers == 2       \* create calls that reach the registry
MaxCalls == 2         \* calls on a handle begun in one behaviour

Min(a, b) == IF a < b THEN a ELSE b

Some(v) == <<v>>
None == <<>>
IsSome(o) == o # <<>>

(***************************************************************************)
(* Registry state (state.rs)                                               *)
(***************************************************************************)
Threads == {"t1", "t2"}
Callbacks == {"c1", "c2"}

\* handle values callers pass: each is unknown to the registry until a create
\* call returns it, and again after it is destroyed
Handles == 1..MaxPlayers

Ok(v) == [tag |-> "Ok", val |-> v]
Err(tag, v) == [tag |-> tag, val |-> v]
Pending == [tag |-> "none", val |-> <<>>]
PlayerNotFound(id) == Err("PlayerNotFound", <<id>>)

BothFields == {"current_duration", "seekable"}

\* a Sink fresh from Sink::connect_new
NewSink == [queue |-> <<>>, paused |-> FALSE, volume |-> 1, pos |-> 0]

\* PlayerState::from_stream.  paired records which of the cached fields were
\* written by the critical section that last changed the sink's queue.
NewPlayer ==
    [sink |-> NewSink, callback |-> None, current_duration |-> None,
     seekable |-> FALSE, paired |-> BothFields]

Idle ==
    [op |-> "idle", pc |-> "idle", next |-> "idle", id |-> 0,
     looped |-> FALSE, hls |-> FALSE, n |-> 0, m |-> 0, c |-> None,
     cb |-> None, src |-> None, result |-> Pending, events |-> <<>>,
     prior |-> 0, gone |-> FALSE, sought |-> None, attached |-> None]

\* the registry before any call: get_or_init has an empty map, NEXT_ID is 1
RegistryNew ==
    /\ NEXT_ID = 1
    /\ players = <<>>
    /\ locked = FALSE
    /\ streams = [t \in Threads |-> {}]
    /\ thr = [t \in Threads |-> Idle]
    /\ calls = 0
    /\ returned = <<>>
    /\ destroyed = {}

\* no stream is open
IcyClosed ==
    /\ stream = <<>> /\ tags = <<>> /\ blocks = <<>> /\ inner = <<>>
    /\ meta_interval = None /\ remaining_until_meta = 0
    /\ delivered = <<>> /\ metadata_events = <<>>
    /\ read_result = [kind |-> "none", n |-> 0, crossed |-> FALSE, avail |-> 0]
    /\ pos = 0

NoPlaylist == [media_sequence |-> 0, segment_count |-> 0,
               has_end_list |-> FALSE, target_duration |-> [hi |-> 0, lo |-> 0]]

NoSeek == [reader |-> "none", from |-> "none", off |-> 0, result |-> Pending]

\* no HLS reader has been built
HlsClosed ==
    /\ hls_reader = [open |-> FALSE, cached_playlist |-> None, next_sequence |-> None,
                     current_response |-> None, ended |-> FALSE, pos |-> 0]
    /\ server = [playlist |-> NoPlaylist, flaw |-> "none", at |-> 0,
                 vod |-> FALSE]
    /\ hcall = [pc |-> "idle", buf_len |-> 0, seg |-> 0, index |-> 0,
                playlist |-> None, result |-> Pending, round |-> 0]
    /\ last_io = <<>>
    /\ hist = [requested |-> <<>>, delivered |-> <<>>, clean |-> TRUE]

HttpIdle ==
    [op |-> "idle", pc |-> "idle", value |-> <<>>, allow_invalid |-> FALSE,
     extra_roots |-> <<>>, client |-> None, response |-> None, gets |-> 0,
     began |-> 0, result |-> Pending]

\* HttpOptions::default() behind an unlocked Mutex, no HTTP call begun
HttpNew ==
    /\ HTTP_OPTIONS = [allow_invalid_certs |-> FALSE, extra_roots |-> <<>>,
                       owner |-> None]
    /\ http_thr = [t \in Threads |-> HttpIdle]
    /\ http_hist = [calls |-> 0,
                    options |-> <<[allow_invalid_certs |-> FALSE,
                                   extra_roots |-> <<>>]>>]

\* no seek has been asked for, no function is under check, no HTTP call made
Quiet == seek_result = NoSeek /\ arg = <<>> /\ ret = None /\ HttpNew

(***************************************************************************)
(* parse_icy_metadata_block                                                *)
(***************************************************************************)
Replacement == 65533
MetaUnit == 16

\* char::is_whitespace, restricted to the Latin-1 range
Whitespace == {9, 10, 11, 12, 13, 32, 133, 160}

\* String::from_utf8_lossy.  Every byte below 0x80 is itself; a byte that
\* cannot start or continue a sequence (0xFF, the only high byte the inputs
\* below contain) becomes U+FFFD on its own.
Utf8Lossy(bytes) ==
    [i \in 1..Len(bytes) |-> IF bytes[i] < 128 THEN bytes[i] ELSE Replacement]

\* str::trim_matches for a set of characters: strip from both ends
TrimMatches(s, cs) ==
    LET keep == {i \in 1..Len(s) : s[i] \notin cs}
    IN  IF keep = {} THEN <<>>
        ELSE LET lo == CHOOSE i \in keep : \A j \in keep : i <= j
                 hi == CHOOSE i \in keep : \A j \in keep : j <= i
             IN  SubSeq(s, lo, hi)

Trim(s) == TrimMatches(s, Whitespace)

IndexOf(s, c) ==
    LET hit == {i \in 1..Len(s) : s[i] = c}
    IN  IF hit = {} THEN 0 ELSE CHOOSE i \in hit : \A j \in hit : i <= j

\* str::split(c)
RECURSIVE Split(_, _)
Split(s, c) ==
    LET i == IndexOf(s, c)
    IN  IF i = 0 THEN <<s>>
        ELSE <<SubSeq(s, 1, i - 1)>> \o Split(SubSeq(s, i + 1, Len(s)), c)

\* a closure that leaves the quotes around the value
ParseFieldQuoted(raw) ==
    LET part == Trim(raw)
        i == IndexOf(part, 61)
    IN  IF part = <<>> \/ i = 0 THEN <<>>
        ELSE LET value == Trim(SubSeq(part, i + 1, Len(part)))
             IN  IF value = <<>> THEN <<>>
                 ELSE << <<Trim(SubSeq(part, 1, i - 1)), value>> >>

\* the filter_map closure of parse_icy_metadata_block: zero or one pair
ParseField(raw) ==
    LET part == Trim(raw)
        i == IndexOf(part, 61)
    IN  IF part = <<>> THEN <<>>
        ELSE IF i = 0 THEN <<>>
        ELSE LET key == SubSeq(part, 1, i - 1)
                 rest == SubSeq(part, i + 1, Len(part))
                 value == TrimMatches(TrimMatches(Trim(rest), {39}), {34})
             IN  IF value = <<>> THEN <<>>
                 ELSE << <<Trim(key), value>> >>

RECURSIVE CollectFields(_)
CollectFields(parts) ==
    IF parts = <<>> THEN <<>>
    ELSE ParseField(Head(parts)) \o CollectFields(Tail(parts))

parse_icy_metadata_block(bytes) ==
    LET trimmed == Trim(TrimMatches(Utf8Lossy(bytes), {0}))
    IN  IF trimmed = <<>> THEN <<>>
        ELSE CollectFields(Split(trimmed, 59))

(***************************************************************************)
(* Inner streams: [n audio][L][L*16 metadata] ... [tail audio]             *)
(***************************************************************************)
\* Metadata blocks the streams are built from.  len is the length byte,
\* text the block's content before null padding, pairs the key/value pairs
\* the block denotes, malformed whether no field of it is key=value with
\* exactly one '=', a non-empty key and a non-empty value.
Samples ==
    << [len |-> 0, text |-> <<>>, pairs |-> <<>>, malformed |-> FALSE],
       \* a=b;c='d'
       [len |-> 1, text |-> <<97, 61, 98, 59, 99, 61, 39, 100, 39>>,
        pairs |-> << <<<<97>>, <<98>>>>, <<<<99>>, <<100>>>> >>,
        malformed |-> FALSE],
       \* ' a = "b" ;' in a two-unit block
       [len |-> 2, text |-> <<32, 97, 32, 61, 32, 34, 98, 34, 32, 59>>,
        pairs |-> << <<<<97>>, <<98>>>> >>, malformed |-> FALSE],
       \* padding only
       [len |-> 1, text |-> <<>>, pairs |-> <<>>, malformed |-> FALSE],
       \* ab  (no '=')
       [len |-> 1, text |-> <<97, 98>>, pairs |-> <<>>, malformed |-> TRUE],
       \* =x  (empty key)
       [len |-> 1, text |-> <<61, 120>>, pairs |-> <<>>, malformed |-> TRUE],
       \* a=b=c  (two '=')
       [len |-> 1, text |-> <<97, 61, 98, 61, 99>>, pairs |-> <<>>,
        malformed |-> TRUE],
       \* sixteen 0xFF bytes (not UTF-8)
       [len |-> 1, text |-> [i \in 1..MetaUnit |-> 255], pairs |-> <<>>,
        malformed |-> TRUE] >>

BlockBytes(b) ==
    Samples[b].text
    \o [i \in 1..(Samples[b].len * MetaUnit - Len(Samples[b].text)) |-> 0]

AudioRun(from, k) == [i \in 1..k |-> from + i - 1]

\* the bytes of a stream with interval n, blocks bs and tail audio bytes;
\* audio bytes are numbered from a so that a lost or moved byte shows
RECURSIVE BuildStream(_, _, _, _)
BuildStream(n, bs, tail, a) ==
    IF bs = <<>> THEN AudioRun(a, tail)
    ELSE AudioRun(a, n) \o <<Samples[Head(bs)].len>> \o BlockBytes(Head(bs))
         \o BuildStream(n, Tail(bs), tail, a + n)

RECURSIVE BuildTags(_, _, _)
BuildTags(n, bs, tail) ==
    IF bs = <<>> THEN [i \in 1..tail |-> "A"]
    ELSE [i \in 1..n |-> "A"] \o <<"L">>
         \o [i \in 1..(Samples[Head(bs)].len * MetaUnit) |-> "M"]
         \o BuildTags(n, Tail(bs), tail)

\* position of the last byte of block j
RECURSIVE BlockEnd(_, _, _)
BlockEnd(n, bs, j) ==
    IF j = 0 THEN 0
    ELSE BlockEnd(n, bs, j - 1) + n + 1 + Samples[bs[j]].len * MetaUnit

BlockSeqs == UNION {[1..k -> 1..Len(Samples)] : k \in 0..MaxBlocks}

(***************************************************************************)
(* IcyMetadataReader                                                       *)
(***************************************************************************)
\* what Read::read of the inner source may return for a buffer of `want`
\* bytes: 0 only at end of stream (or for an empty buffer), else any
\* positive count up to what is asked for and what is there
InnerRead(src, want) ==
    IF want = 0 \/ src = <<>> THEN {0} ELSE 1..Min(want, Len(src))

\* IcyMetadataReader::new
NewInterval(configured) ==
    IF IsSome(configured) /\ configured[1] > 0 THEN configured ELSE None

\* a reader that takes the length byte to count 8-byte units
MetaLenShort(len_byte) == len_byte * (MetaUnit \div 2)

MetaLen(len_byte) == len_byte * MetaUnit

\* a reader that fills the caller's buffer across the metadata boundary
ToReadWholeBuffer(buf_len, remaining) == buf_len

ToRead(buf_len, remaining) == Min(buf_len, remaining)

\* a reader that does not count down from the interval again after a block
AfterBlockZero(interval) == 0

\* self.remaining_until_meta = interval, once the length byte and the block
\* are read
AfterBlock(interval) == interval

NoRead == [kind |-> "none", n |-> 0, crossed |-> FALSE, avail |-> 0]

IcyOpen ==
    \E n \in 1..MaxInterval, bs \in BlockSeqs, cut \in 0..1 :
      \E configured \in {Some(n)} \cup (IF Len(bs) <= 1 THEN {None, Some(0)} ELSE {}),
         tail \in 0..n :
        LET full == BuildStream(n, bs, tail, 1)
            s == SubSeq(full, 1, Len(full) - Min(cut, Len(full)))
            active == IsSome(NewInterval(configured))
        IN  /\ stream = s
            /\ tags = IF active THEN SubSeq(BuildTags(n, bs, tail), 1, Len(s))
                      ELSE [i \in 1..Len(s) |-> "A"]
            /\ blocks = IF active THEN bs ELSE <<>>
            /\ inner = s
            /\ meta_interval = NewInterval(configured)
            /\ remaining_until_meta =
                   IF active THEN NewInterval(configured)[1] ELSE 0
            /\ delivered = <<>>
            /\ metadata_events = <<>>
            /\ read_result = NoRead
            /\ pos = 0

InitIcy == IcyOpen /\ RegistryNew /\ HlsClosed /\ Quiet

\* <IcyMetadataReader as Read>::read with a buffer of buf_len bytes
ReadInto(buf_len) ==
    IF ~IsSome(meta_interval)
    THEN \E k \in InnerRead(inner, buf_len) :
            /\ delivered' = delivered \o SubSeq(inner, 1, k)
            /\ inner' = SubSeq(inner, k + 1, Len(inner))
            /\ read_result' = [kind |-> "ok", n |-> k, crossed |-> FALSE,
                               avail |-> buf_len]
            /\ UNCHANGED <<meta_interval, remaining_until_meta,
                           metadata_events, stream, tags, blocks>>
    ELSE LET interval == meta_interval[1]
             at_meta == remaining_until_meta = 0
         IN  IF at_meta /\ inner = <<>>
             THEN \* the length byte read returns 0
                  /\ read_result' = [kind |-> "ok", n |-> 0, crossed |-> FALSE,
                                     avail |-> 0]
                  /\ UNCHANGED <<inner, meta_interval, remaining_until_meta,
                                 delivered, metadata_events, stream, tags,
                                 blocks>>
             ELSE IF at_meta /\ MetaLen(Head(inner)) > Len(inner) - 1
             THEN \* read_exact hits the end of the stream: UnexpectedEof
                  /\ inner' = <<>>
                  /\ read_result' = [kind |-> "err", n |-> 0, crossed |-> TRUE,
                                     avail |-> remaining_until_meta]
                  /\ UNCHANGED <<meta_interval, remaining_until_meta,
                                 delivered, metadata_events, stream, tags,
                                 blocks>>
             ELSE LET meta_len == IF at_meta THEN MetaLen(Head(inner)) ELSE 0
                      metadata == SubSeq(inner, 2, 1 + meta_len)
                      src == IF at_meta
                             THEN SubSeq(inner, 2 + meta_len, Len(inner))
                             ELSE inner
                      events == IF at_meta /\ meta_len > 0
                                THEN parse_icy_metadata_block(metadata)
                                ELSE <<>>
                      remaining == IF at_meta THEN AfterBlock(interval)
                                   ELSE remaining_until_meta
                      to_read == ToRead(buf_len, remaining)
                  IN  \E k \in InnerRead(src, to_read) :
                        /\ metadata_events' = metadata_events \o events
                        /\ delivered' = delivered \o SubSeq(src, 1, k)
                        /\ inner' = SubSeq(src, k + 1, Len(src))
                        /\ remaining_until_meta' = remaining - k
                        /\ read_result' = [kind |-> "ok", n |-> k,
                                           crossed |-> at_meta,
                                           avail |-> remaining]
                        /\ UNCHANGED <<meta_interval, stream, tags, blocks>>

\* a reader that counts the buffer's length instead of what was read
StreamReadCountsBuffer(buf_len) ==
    /\ ReadInto(buf_len)
    /\ pos' = pos + buf_len

\* <StreamReader as Read>::read: the inner reader's read, and pos advanced by
\* what it returned (u64 saturation is out of reach of the streams here)
StreamRead(buf_len) ==
    /\ ReadInto(buf_len)
    /\ pos' = pos + (IF read_result'.kind = "ok" THEN read_result'.n ELSE 0)

IcyRead(buf_len) ==
    /\ StreamRead(buf_len)
    /\ seek_result' = NoSeek
    /\ UNCHANGED <<regVars, hlsVars, fnVars, httpVars>>

NextIcy == \E buf_len \in 1..MaxBuf : IcyRead(buf_len)

SpecIcy == InitIcy /\ [][NextIcy]_vars

(***************************************************************************)
(* Properties of the reader                                                *)
(***************************************************************************)
Consumed == Len(stream) - Len(inner)

\* the audio bytes among the first p bytes of the stream
RECURSIVE AudioFrom(_, _)
AudioFrom(i, p) ==
    IF i > p THEN <<>>
    ELSE (IF tags[i] = "A" THEN <<stream[i]>> ELSE <<>>) \o AudioFrom(i + 1, p)

AudioOf(p) == AudioFrom(1, p)

\* the pairs of the blocks that lie wholly within the first p bytes
RECURSIVE PairsFrom(_, _)
PairsFrom(j, p) ==
    IF j > Len(blocks) \/ BlockEnd(meta_interval[1], blocks, j) > p THEN <<>>
    ELSE Samples[blocks[j]].pairs \o PairsFrom(j + 1, p)

PairsOf(p) == IF IsSome(meta_interval) THEN PairsFrom(1, p) ELSE <<>>

NoMalformedBlock == \A j \in 1..Len(blocks) : ~Samples[blocks[j]].malformed

\* C1: whatever the interval, the buffer sizes and the inner source's short
\* reads, the bytes returned so far are exactly the audio bytes of the part
\* of the stream consumed so far, in order, and on_metadata has been called
\* with the pairs of the blocks passed so far, in source order.
C1_AudioExactAndMetadataInOrder ==
    /\ delivered = AudioOf(Consumed)
    /\ NoMalformedBlock => metadata_events = PairsOf(Consumed)

\* a two-block stream read to its end: block a=b;c='d' and another block
\* with a pair were passed and audio from before, between and after them
\* was delivered
C1_Witness ==
    /\ IsSome(meta_interval) /\ inner = <<>> /\ Len(stream) > 0
    /\ Len(blocks) = 2 /\ blocks[1] = 2 /\ blocks[2] = 3
    /\ Len(metadata_events) = 3
    /\ Len(delivered) > 2 * meta_interval[1]
    /\ read_result.kind = "ok"

\* C2: with an interval n configured remaining_until_meta stays within 0..n,
\* a read returns no more bytes than remained before the boundary and
\* subtracts exactly what it returned, and a read that consumed a length
\* byte (L > 0 or L = 0) counts down from n again.
C2_RemainingWithinInterval ==
    IsSome(meta_interval) =>
        /\ remaining_until_meta \in 0..meta_interval[1]
        /\ read_result.kind = "ok" =>
              /\ read_result.n <= read_result.avail
              /\ remaining_until_meta = read_result.avail - read_result.n
              /\ read_result.crossed => read_result.avail = meta_interval[1]

\* a read with a buffer larger than the interval that passed an L = 0
\* length byte and returned a whole interval of audio
C2_Witness ==
    /\ IsSome(meta_interval) /\ meta_interval[1] = 2
    /\ read_result.kind = "ok" /\ read_result.crossed
    /\ read_result.n = 2 /\ remaining_until_meta = 0
    /\ Len(blocks) >= 1 /\ blocks[1] = 1 /\ Consumed = 5

\* C3 as claimed: a malformed block that is wholly in the stream produces no
\* on_metadata call, the read that passes it does not fail, and the audio
\* after it is delivered intact.
C3_MalformedBlockSilent ==
    IsSome(meta_interval) =>
        /\ metadata_events = PairsOf(Consumed)
        /\ delivered = AudioOf(Consumed)
        /\ read_result.kind = "err" => Len(tags) > 0 /\ tags[Len(tags)] # "A"

(***************************************************************************)
(* Registry operations (state.rs) and the public calls of lib.rs           *)
(***************************************************************************)
MaxOf(seq) ==
    IF seq = <<>> THEN 0
    ELSE CHOOSE m \in {seq[i] : i \in 1..Len(seq)} :
            \A i \in 1..Len(seq) : seq[i] <= m

\* a counter that hands out the same value again
FetchAddStuck(n) == n

\* NEXT_ID.fetch_add(1, Relaxed): the value stored after the call
FetchAdd(n) == n + 1

\* a lock that lets every caller in
CanAcquireAlways(t) == TRUE

\* Mutex::lock returns once no other thread holds the mutex
CanAcquire(t) == ~locked

\* always seek to the requested position
ClampNone(target, duration) == target

\* player_seek_position_ms: if target > duration { duration } else { target }
Clamp(target, duration) == IF target > duration THEN duration ELSE target

InsertPlayer(map, id, p) ==
    [h \in DOMAIN map \cup {id} |-> IF h = id THEN p ELSE map[h]]

RemovePlayer(map, id) == [h \in DOMAIN map \ {id} |-> map[h]]

Set(t, r) == thr' = [thr EXCEPT ![t] = r]

CreateOps == {"create_player", "create_player_with_buffer_size_frames"}
PlayOps == {"player_play_file", "player_play_sine", "player_play_url",
            "player_play_radio"}
EventOps == {"player_play", "player_pause", "player_stop", "player_clear"}
QueryOps == {"player_is_paused", "player_is_empty", "player_get_position_ms",
             "player_get_duration_ms", "player_is_seekable"}
OtherOps == {"player_set_callback", "player_clear_callback",
             "player_seek_position_ms", "player_set_volume"}
SessionOps == PlayOps \cup EventOps \cup QueryOps \cup OtherOps

\* pcs at which a thread is inside a closure of with_player/with_player_mut,
\* or inside register/unregister, with the guard alive
CsPcs == {"register", "unregister", "callback", "closure", "append"}

\* PlayerState::new / PlayerState::new_with_buffer_size_frames
PlayerStateNew(frames, device_ok) ==
    IF IsSome(frames) /\ frames[1] = 0 THEN Err("InvalidBufferSize", <<0>>)
    ELSE IF ~device_ok THEN Err("Stream", <<>>)
    ELSE Ok(<<>>)

\* create_player / create_player_with_buffer_size_frames, up to register
CreateBegin(t) ==
    /\ thr[t].pc = "idle"
    /\ NEXT_ID + Cardinality({u \in Threads : thr[u].pc = "next_id"}) <= MaxPlayers
    /\ \E frames \in {None, Some(0), Some(1)}, device_ok \in BOOLEAN :
          LET r == PlayerStateNew(frames, device_ok)
          IN  Set(t, [Idle EXCEPT
                  !.op = IF IsSome(frames)
                         THEN "create_player_with_buffer_size_frames"
                         ELSE "create_player",
                  !.prior = MaxOf(returned),
                  !.pc = IF r.tag = "Ok" THEN "next_id" ELSE "done",
                  !.result = IF r.tag = "Ok" THEN Pending ELSE r])
    /\ UNCHANGED <<readerVars, NEXT_ID, players, locked, streams, calls, returned, destroyed>>

\* register: let id = next_id()
RegisterNextId(t) ==
    /\ thr[t].pc = "next_id"
    /\ Set(t, [thr[t] EXCEPT !.id = NEXT_ID, !.pc = "lock", !.next = "register"])
    /\ NEXT_ID' = FetchAdd(NEXT_ID)
    /\ UNCHANGED <<readerVars, players, locked, streams, calls, returned, destroyed>>

\* players().lock() in register, with_player, with_player_mut, unregister
Acquire(t) ==
    /\ thr[t].pc = "lock"
    /\ CanAcquire(t)
    /\ locked' = TRUE
    /\ Set(t, [thr[t] EXCEPT !.pc = thr[t].next])
    /\ UNCHANGED <<readerVars, NEXT_ID, players, streams, calls, returned, destroyed>>

\* register: map.insert, STREAMS insert on the calling thread, return id
RegisterInsert(t) ==
    /\ thr[t].pc = "register"
    /\ players' = InsertPlayer(players, thr[t].id, NewPlayer)
    /\ streams' = [streams EXCEPT ![t] = @ \cup {thr[t].id}]
    /\ locked' = FALSE
    /\ returned' = Append(returned, thr[t].id)
    /\ Set(t, [thr[t] EXCEPT !.pc = "done", !.result = Ok(<<thr[t].id>>)])
    /\ UNCHANGED <<readerVars, NEXT_ID, calls, destroyed>>

\* destroy_player(id)
DestroyBegin(t) ==
    /\ thr[t].pc = "idle" /\ calls < MaxCalls
    /\ \E id \in Handles :
          Set(t, [Idle EXCEPT !.op = "destroy_player", !.id = id,
                              !.gone = id \in destroyed,
                              !.pc = "lock", !.next = "unregister"])
    /\ calls' = calls + 1
    /\ UNCHANGED <<readerVars, NEXT_ID, players, locked, streams, returned, destroyed>>

\* unregister: map.remove, STREAMS remove on the calling thread
UnregisterRemove(t) ==
    /\ thr[t].pc = "unregister"
    /\ LET id == thr[t].id
           existed == id \in DOMAIN players
       IN  /\ players' = RemovePlayer(players, id)
           /\ streams' = [streams EXCEPT ![t] = @ \ {id}]
           /\ destroyed' = IF existed THEN destroyed \cup {id} ELSE destroyed
           /\ Set(t, [thr[t] EXCEPT
                   !.pc = "done",
                   !.result = IF existed THEN Ok(<<>>) ELSE PlayerNotFound(id)])
    /\ locked' = FALSE
    /\ UNCHANGED <<readerVars, NEXT_ID, calls, returned>>

\* the checks a call makes on its arguments before it touches the registry
Validate(op, n, m) ==
    IF op = "player_set_volume" /\ n < 0 THEN Err("InvalidVolume", <<n>>)
    ELSE IF op = "player_play_sine" /\ n <= 0 THEN Err("InvalidFrequency", <<n>>)
    ELSE IF op = "player_play_sine" /\ m = 0 THEN Err("InvalidDuration", <<m>>)
    ELSE Pending

\* the argument values tried for each call: n is the volume, the frequency
\* or the position, m the tone's duration
ArgsOf(op) ==
    IF op = "player_set_volume" THEN {[n |-> -1, m |-> 0], [n |-> 0, m |-> 0]}
    ELSE IF op = "player_play_sine"
         THEN {[n |-> 0, m |-> 1], [n |-> 1, m |-> 0], [n |-> 1, m |-> 1]}
    ELSE IF op = "player_seek_position_ms"
         THEN {[n |-> 0, m |-> 0], [n |-> 2, m |-> 0]}
    ELSE {[n |-> 0, m |-> 0]}

\* entry of every public call that takes a handle, other than destroy_player
CallBegin(t) ==
    /\ thr[t].pc = "idle" /\ calls < MaxCalls
    /\ \E op \in SessionOps, id \in Handles :
        \E a \in ArgsOf(op),
           looped \in IF op \in {"player_play_file", "player_play_url"}
                      THEN BOOLEAN ELSE {FALSE},
           hls \in IF op \in {"player_play_url", "player_play_radio"}
                   THEN BOOLEAN ELSE {FALSE},
           c \in IF op = "player_set_callback" THEN {Some(x) : x \in Callbacks}
                 ELSE {None} :
          LET v == Validate(op, a.n, a.m)
          IN  Set(t, [Idle EXCEPT
                  !.op = op, !.id = id, !.n = a.n, !.m = a.m,
                  !.looped = looped, !.hls = hls, !.c = c,
                  !.gone = id \in destroyed,
                  !.attached = IF op \in PlayOps /\ id \in DOMAIN players
                               THEN players[id].callback ELSE None,
                  !.result = v,
                  !.pc = IF v.tag # "none" THEN "done" ELSE "lock",
                  !.next = IF v.tag # "none" THEN "idle"
                           ELSE IF op \in PlayOps THEN "callback"
                           ELSE "closure"])
    /\ calls' = calls + 1
    /\ UNCHANGED <<readerVars, NEXT_ID, players, locked, streams, returned, destroyed>>

\* player_callback(id)?: with_player(id, |state| Ok(state.callback.clone()))
CsCallback(t) ==
    /\ thr[t].pc = "callback"
    /\ LET id == thr[t].id
           op == thr[t].op
       IN  IF id \notin DOMAIN players
           THEN Set(t, [thr[t] EXCEPT !.pc = "done",
                                      !.result = PlayerNotFound(id)])
           ELSE Set(t, [thr[t] EXCEPT
                   !.cb = players[id].callback,
                   !.pc = IF op = "player_play_sine" THEN "lock"
                          ELSE IF op = "player_play_file" THEN "fetch"
                          ELSE "connecting",
                   !.next = "closure"])
    /\ locked' = FALSE
    /\ UNCHANGED <<readerVars, NEXT_ID, players, streams, calls, returned, destroyed>>

\* notify_event / notify_error: call through the callback, if there is one
Notified(r, cb, method, what) ==
    IF IsSome(cb) THEN Append(r.events, <<cb[1], method, what>>) ELSE r.events

\* player_play_url / player_play_radio: notify_event(Connecting)
NotifyConnecting(t) ==
    /\ thr[t].pc = "connecting"
    /\ Set(t, [thr[t] EXCEPT !.events = Notified(thr[t], thr[t].cb, "on_event",
                                                  "Connecting"),
                             !.pc = "fetch"])
    /\ UNCHANGED <<readerVars, NEXT_ID, players, locked, streams, calls, returned, destroyed>>

Source(kind, duration, seekable, writes) ==
    [kind |-> kind, duration |-> duration, seekable |-> seekable,
     writes |-> writes]

Durations == {None, Some(1)}

\* What the part of a play call before with_player_mut can produce: an
\* error, or the decoded source with the values the closure stores.
Prepared(op, looped, hls) ==
    IF op = "player_play_file"
    THEN {Err("Io", <<>>), Err("Decoder", <<>>)}
         \cup {Ok(Source(IF looped THEN "file_loop" ELSE "file",
                         IF looped THEN None ELSE d,
                         can_seek /\ ~looped, BothFields)) :
                 d \in Durations, can_seek \in BOOLEAN}
    ELSE IF op = "player_play_url" /\ looped
    THEN IF hls THEN {Err("Playlist", <<>>)}
         ELSE {Err("HttpStatus", <<404>>), Err("Decoder", <<>>),
               Ok(Source("url_loop", None, FALSE, {"current_duration"}))}
    ELSE \* player_play_url not looped, player_play_radio
         {Err("HttpStatus", <<404>>), Err("Decoder", <<>>), Err("Playlist", <<>>)}
         \cup {Ok(Source("hls", d, FALSE, BothFields)) : d \in Durations}
         \cup (IF hls THEN {}
               ELSE {Ok(Source("stream", d, FALSE, BothFields)) : d \in Durations})

\* Whether on_metadata is called before with_player_mut: player_play_radio
\* passes on the icy-name, icy-description and icy-genre headers of a plain
\* stream, and the StreamReader a decoder is built on calls it for every
\* block the decoder reads while it probes the stream; a looped
\* player_play_url downloads the bytes and builds no StreamReader.
Metadata(op, looped, r) ==
    IF /\ op \in {"player_play_url", "player_play_radio"} /\ ~looped
       /\ \/ r.tag = "Decoder"
          \/ r.tag = "Ok" /\ r.val.kind = "stream"
    THEN BOOLEAN ELSE {FALSE}

\* a play call that forgets the session's duration when its fetch fails
FetchResetsDuration(t) ==
    /\ thr[t].pc = "fetch"
    /\ \E r \in Prepared(thr[t].op, thr[t].looped, thr[t].hls) :
          IF r.tag = "Ok"
          THEN /\ Set(t, [thr[t] EXCEPT !.src = Some(r.val), !.pc = "lock",
                                        !.next = "closure"])
               /\ UNCHANGED players
          ELSE /\ Set(t, [thr[t] EXCEPT !.result = r, !.pc = "notify"])
               /\ players' = IF thr[t].id \in DOMAIN players
                              THEN [players EXCEPT
                                      ![thr[t].id].current_duration = None]
                              ELSE players
    /\ UNCHANGED <<readerVars, NEXT_ID, locked, streams, calls, returned, destroyed>>

\* the body of a play call up to with_player_mut: open and decode the file,
\* or fetch the URL, resolve playlists, build the reader and the decoder
Fetch(t) ==
    /\ thr[t].pc = "fetch"
    /\ \E r \in Prepared(thr[t].op, thr[t].looped, thr[t].hls) :
        \E told \in Metadata(thr[t].op, thr[t].looped, r) :
          LET events == IF told
                        THEN Notified(thr[t], thr[t].cb, "on_metadata", "icy")
                        ELSE thr[t].events
          IN  IF r.tag = "Ok"
              THEN Set(t, [thr[t] EXCEPT !.src = Some(r.val), !.pc = "lock",
                                         !.next = "closure",
                                         !.events = events])
              ELSE Set(t, [thr[t] EXCEPT !.result = r, !.pc = "notify",
                                         !.events = events])
    /\ UNCHANGED <<readerVars, NEXT_ID, players, locked, streams, calls, returned, destroyed>>

\* the source player_play_sine builds inside its closure
SineSource(duration_ms) == Source("sine", Some(duration_ms), FALSE, BothFields)

\* with_player_mut of a play call: get_mut, then the stores to
\* current_duration and seekable
CsPlayWrite(t) ==
    /\ thr[t].pc = "closure" /\ thr[t].op \in PlayOps
    /\ LET id == thr[t].id
           src == IF thr[t].op = "player_play_sine" THEN SineSource(thr[t].m)
                  ELSE thr[t].src[1]
       IN  IF id \notin DOMAIN players
           THEN /\ Set(t, [thr[t] EXCEPT !.pc = "notify",
                                         !.result = PlayerNotFound(id)])
                /\ locked' = FALSE
                /\ UNCHANGED players
           ELSE /\ players' = [players EXCEPT
                       ![id].current_duration =
                           IF "current_duration" \in src.writes
                           THEN src.duration ELSE @,
                       ![id].seekable =
                           IF "seekable" \in src.writes
                           THEN src.seekable ELSE @]
                /\ Set(t, [thr[t] EXCEPT !.pc = "append", !.src = Some(src)])
                /\ UNCHANGED locked
    /\ UNCHANGED <<readerVars, NEXT_ID, streams, calls, returned, destroyed>>

\* a play call that tells its callback Playing from inside the closure
CsPlayAppendNotifies(t) ==
    /\ thr[t].pc = "append"
    /\ LET id == thr[t].id
           src == thr[t].src[1]
       IN  players' = IF id \in DOMAIN players
                      THEN [players EXCEPT
                               ![id].sink.queue = Append(@, src.kind),
                               ![id].paired = src.writes]
                      ELSE players
    /\ locked' = FALSE
    /\ Set(t, [thr[t] EXCEPT !.pc = "done", !.result = Ok(<<>>),
                             !.events = Notified(thr[t], thr[t].cb,
                                                 "on_event", "Playing")])
    /\ UNCHANGED <<readerVars, NEXT_ID, streams, calls, returned, destroyed>>

\* with_player_mut of a play call: state.sink.append(..), Ok(()), unlock
CsPlayAppend(t) ==
    /\ thr[t].pc = "append"
    /\ LET id == thr[t].id
           src == thr[t].src[1]
       IN  players' = IF id \in DOMAIN players
                      THEN [players EXCEPT
                               ![id].sink.queue = Append(@, src.kind),
                               ![id].paired = src.writes]
                      ELSE players
    /\ locked' = FALSE
    /\ Set(t, [thr[t] EXCEPT !.pc = "notify", !.result = Ok(<<>>)])
    /\ UNCHANGED <<readerVars, NEXT_ID, streams, calls, returned, destroyed>>

\* Sink::stop and Sink::clear empty the queue; clear also pauses the sink
SinkStopped(sink) == [sink EXCEPT !.queue = <<>>]
SinkCleared(sink) == [sink EXCEPT !.queue = <<>>, !.paused = TRUE]

\* the closure of every call that is not a play call, applied to the entry:
\* the entry afterwards, the call's result, and the position handed to
\* Sink::try_seek (if it was called); seek_ok is what try_seek answers
Closure(r, p, seek_ok) ==
    LET op == r.op
        same == [player |-> p, result |-> Ok(<<>>), sought |-> None]
    IN  CASE op = "player_play" ->
               [same EXCEPT !.player.sink.paused = FALSE]
          [] op = "player_pause" ->
               [same EXCEPT !.player.sink.paused = TRUE]
          [] op = "player_stop" ->
               [same EXCEPT !.player.current_duration = None,
                            !.player.seekable = FALSE,
                            !.player.sink = SinkStopped(p.sink),
                            !.player.paired = BothFields]
          [] op = "player_clear" ->
               [same EXCEPT !.player.current_duration = None,
                            !.player.seekable = FALSE,
                            !.player.sink = SinkCleared(p.sink),
                            !.player.paired = BothFields]
          [] op = "player_is_paused" ->
               [same EXCEPT !.result = Ok(<<p.sink.paused>>)]
          [] op = "player_is_empty" ->
               [same EXCEPT !.result = Ok(<<p.sink.queue = <<>> >>)]
          [] op = "player_get_position_ms" ->
               [same EXCEPT !.result = Ok(<<p.sink.pos>>)]
          [] op = "player_get_duration_ms" ->
               [same EXCEPT !.result = Ok(<<p.current_duration>>)]
          [] op = "player_is_seekable" ->
               [same EXCEPT !.result = Ok(<<p.seekable>>)]
          [] op = "player_set_volume" ->
               [same EXCEPT !.player.sink.volume = r.n]
          [] op = "player_set_callback" ->
               [same EXCEPT !.player.callback = r.c]
          [] op = "player_clear_callback" ->
               [same EXCEPT !.player.callback = None]
          [] op = "player_seek_position_ms" ->
               IF ~IsSome(p.current_duration)
               THEN [same EXCEPT !.result =
                        Err("Seek", <<"duration unknown or not seekable">>)]
               ELSE IF ~p.seekable
               THEN [same EXCEPT !.result =
                        Err("Seek", <<"source is not seekable">>)]
               ELSE LET clamped == Clamp(r.n, p.current_duration[1])
                    IN  IF seek_ok
                        THEN [same EXCEPT !.player.sink.pos = clamped,
                                          !.sought = Some(clamped)]
                        ELSE [same EXCEPT !.result = Err("Seek", <<"sink">>),
                                          !.sought = Some(clamped)]

\* with_player / with_player_mut of a call that is not a play call: lookup,
\* closure, unlock.  player_play, player_pause, player_stop and player_clear
\* take the callback out of the closure and notify afterwards.
CsSimple(t) ==
    /\ thr[t].pc = "closure" /\ thr[t].op \notin PlayOps
    /\ LET id == thr[t].id
       IN  IF id \notin DOMAIN players
           THEN /\ Set(t, [thr[t] EXCEPT !.pc = "done",
                                         !.result = PlayerNotFound(id)])
                /\ UNCHANGED players
           ELSE \E seek_ok \in BOOLEAN :
                  LET c == Closure(thr[t], players[id], seek_ok)
                  IN  /\ players' = [players EXCEPT ![id] = c.player]
                      /\ Set(t, [thr[t] EXCEPT
                              !.result = c.result,
                              !.sought = c.sought,
                              !.cb = IF thr[t].op \in EventOps
                                     THEN players[id].callback ELSE @,
                              !.pc = IF thr[t].op \in EventOps
                                     THEN "notify" ELSE "done"])
    /\ locked' = FALSE
    /\ UNCHANGED <<readerVars, NEXT_ID, streams, calls, returned, destroyed>>

EventOf(op) ==
    CASE op = "player_pause" -> "Paused"
      [] op \in {"player_stop", "player_clear"} -> "Stopped"
      [] OTHER -> "Playing"

\* a call that reports its event even after it has reported an error
NotifyErrorThenEvent(t) ==
    /\ thr[t].pc = "notify"
    /\ LET told == IF thr[t].result.tag = "Ok" THEN thr[t]
                   ELSE [thr[t] EXCEPT
                           !.events = Notified(thr[t], thr[t].cb, "on_error",
                                               thr[t].result.tag)]
       IN  Set(t, [thr[t] EXCEPT
               !.events = Notified(told, thr[t].cb, "on_event",
                                   EventOf(thr[t].op)),
               !.pc = "done"])
    /\ UNCHANGED <<readerVars, NEXT_ID, players, locked, streams, calls, returned, destroyed>>

\* the notification a call makes after its closure has returned:
\* notify_error on failure, notify_event otherwise
Notify(t) ==
    /\ thr[t].pc = "notify"
    /\ Set(t, [thr[t] EXCEPT
           !.events = IF thr[t].result.tag = "Ok"
                      THEN Notified(thr[t], thr[t].cb, "on_event",
                                    EventOf(thr[t].op))
                      ELSE Notified(thr[t], thr[t].cb, "on_error",
                                    thr[t].result.tag),
           !.pc = "done"])
    /\ UNCHANGED <<readerVars, NEXT_ID, players, locked, streams, calls, returned, destroyed>>

\* the call returns to its caller
Return(t) ==
    /\ thr[t].pc = "done"
    /\ Set(t, Idle)
    /\ UNCHANGED <<readerVars, NEXT_ID, players, locked, streams, calls, returned, destroyed>>

Init == RegistryNew /\ IcyClosed /\ HlsClosed /\ Quiet

Next ==
    \E t \in Threads :
          \/ CreateBegin(t)
          \/ RegisterNextId(t)
          \/ Acquire(t)
          \/ RegisterInsert(t)
          \/ DestroyBegin(t)
          \/ UnregisterRemove(t)
          \/ CallBegin(t)
          \/ CsCallback(t)
          \/ NotifyConnecting(t)
          \/ Fetch(t)
          \/ CsPlayWrite(t)
          \/ CsPlayAppend(t)
          \/ CsSimple(t)
          \/ Notify(t)
          \/ Return(t)

Spec == Init /\ [][Next]_vars

(***************************************************************************)
(* Properties of the registry                                              *)
(***************************************************************************)
IsNotFound(r, id) == r.tag = "PlayerNotFound" /\ r.val = <<id>>

HandleOps == SessionOps \cup {"destroy_player"}

\* handles that are or were in the registry
EverRegistered == DOMAIN players \cup destroyed

NoDuplicates(seq) ==
    \A i, j \in 1..Len(seq) : i # j => seq[i] # seq[j]

\* the handles whose OutputStream some thread's STREAMS map still holds
HeldDevices == UNION {streams[t] : t \in Threads}

\* C4 as claimed: every call on a handle that had been destroyed when the
\* call began returns PlayerNotFound carrying that handle, and so does
\* destroy_player on a handle that was never created.
C4_DestroyedHandleNotFound ==
    \A t \in Threads :
        (/\ thr[t].pc = "done" /\ thr[t].op \in HandleOps
         /\ \/ thr[t].gone
            \/ thr[t].op = "destroy_player" /\ thr[t].id \notin EverRegistered)
        => IsNotFound(thr[t].result, thr[t].id)

\* C5 as claimed: every call on a handle the registry has never held returns
\* PlayerNotFound carrying that handle, whatever its other arguments, and
\* notifies nobody.
C5_UnknownHandleNotFound ==
    \A t \in Threads :
        (/\ thr[t].pc = "done" /\ thr[t].op \in HandleOps
         /\ thr[t].id \notin EverRegistered)
        => /\ IsNotFound(thr[t].result, thr[t].id)
           /\ thr[t].events = <<>>

\* C6: no two create calls ever return the same handle, and a create call
\* returns a handle greater than every handle returned before it began.
C6_HandlesNeverReused ==
    /\ NoDuplicates(returned)
    /\ \A t \in Threads :
          (thr[t].pc = "done" /\ thr[t].op \in CreateOps /\ thr[t].result.tag = "Ok")
          => thr[t].result.val[1] > thr[t].prior

\* a create call that began after an earlier handle had been destroyed has
\* returned
C6_Witness ==
    \E t \in Threads :
        /\ thr[t].pc = "done" /\ thr[t].op \in CreateOps
        /\ thr[t].result.tag = "Ok"
        /\ thr[t].prior \in destroyed

\* C7 as claimed: the handles whose output device is held are exactly the
\* handles in the registry, whichever thread called destroy_player.
C7_DeviceReleasedOnDestroy == HeldDevices = DOMAIN players

\* C8 as claimed: whenever the registry can be queried, a session onto which
\* a source was appended after an earlier one has current_duration and
\* seekable both written by the critical section that appended it.
C8_DurationSeekablePairedWithSource ==
    ~locked =>
        \A id \in DOMAIN players :
            Len(players[id].sink.queue) >= 2 => players[id].paired = BothFields

InClosure(t) == thr[t].pc \in CsPcs

\* C9 as claimed: no call on an existing session waits for the registry
\* while a call on a different existing session is inside its closure.
C9_NoCrossSessionBlocking ==
    \A t, u \in Threads :
        ~ /\ t # u
          /\ thr[t].pc \in {"callback", "closure", "append"}
          /\ thr[t].id \in DOMAIN players
          /\ thr[u].pc = "lock" /\ thr[u].op \in SessionOps
          /\ thr[u].id \in DOMAIN players
          /\ thr[u].id # thr[t].id

\* C9 amended: at most one call at a time is inside register, unregister or
\* a with_player / with_player_mut closure, and the mutex is held exactly
\* then (not while a call fetches, decodes or notifies).
C9_OneClosureAtATime ==
    /\ Cardinality({t \in Threads : InClosure(t)}) <= 1
    /\ locked <=> \E t \in Threads : InClosure(t)

\* a call is inside its closure on a session while another call on the same
\* session waits for the mutex
C9_Witness ==
    \E t, u \in Threads :
        /\ t # u
        /\ thr[t].pc = "closure" /\ thr[t].op \in SessionOps
        /\ thr[t].id \in DOMAIN players
        /\ thr[u].pc = "lock" /\ thr[u].op \in SessionOps
        /\ thr[u].id = thr[t].id

\* C10: the closure of player_seek_position_ms on an existing session fails
\* with the seek error, without calling try_seek and without changing the
\* session, when the duration is unknown or the session is not seekable;
\* otherwise it calls try_seek with min(position_ms, duration).
C10_SeekChecksThenClamps ==
    [][\A t \in Threads :
          (/\ thr[t].op = "player_seek_position_ms"
           /\ thr[t].pc = "closure" /\ thr'[t].pc = "done"
           /\ thr[t].id \in DOMAIN players)
          => LET p == players[thr[t].id]
                 r == thr'[t]
             IN  IF ~IsSome(p.current_duration) \/ ~p.seekable
                 THEN /\ r.result.tag = "Seek"
                      /\ r.sought = None
                      /\ players' = players
                 ELSE /\ r.sought = Some(Min(thr[t].n, p.current_duration[1]))
                      /\ r.result.tag = "Ok" =>
                            players'[thr[t].id].sink.pos =
                                Min(thr[t].n, p.current_duration[1])
      ]_vars

\* a seek to position 2 on a seekable session of duration 1 succeeded and
\* handed position 1 to the sink
C10_Witness ==
    \E t \in Threads :
        /\ thr[t].pc = "done" /\ thr[t].op = "player_seek_position_ms"
        /\ thr[t].n = 2 /\ thr[t].sought = Some(1)
        /\ thr[t].result.tag = "Ok"
        /\ thr[t].id \in DOMAIN players
        /\ players[thr[t].id].sink.pos = 1

(***************************************************************************)
(* HlsStreamReader (lib.rs:181-354) and the seeks of both stream readers   *)
(***************************************************************************)
MaxSeq == 2           \* largest media sequence number the server publishes
MaxHlsBuf == 2        \* largest caller buffer

\* Duration::as_millis() of a playlist's target duration: a u128, held as
\* its two 64-bit words
Millis(ms) == [hi |-> 0, lo |-> ms]

\* `as u64` keeps the low word
AsU64(d) == d.lo

\* hls_refresh_delay, in milliseconds
hls_refresh_delay(target_duration) ==
    LET millis == AsU64(target_duration) \div 2
    IN  IF millis < 500 THEN 500
        ELSE IF millis > 2000 THEN 2000
        ELSE millis

\* what makes validate_hls_segment or resolve_hls_url refuse a segment
Flaws == {"map", "byte_range", "key", "bad_uri"}

\* the segment with sequence number s, as every playlist lists it
Segment(s) ==
    LET has(kind) == server.flaw = kind /\ server.at = s
    IN  [seq |-> s, map |-> has("map"), byte_range |-> has("byte_range"),
         keys |-> IF has("key") THEN <<TRUE>> ELSE <<>>,
         uri_ok |-> ~has("bad_uri")]

\* the bytes the server answers a GET of segment s with
Body(s) == [i \in 1..((s + 1) % 3) |-> 10 * s + i]

\* a validator that lets every segment through
ValidateNothing(segment) == Ok(<<>>)

validate_hls_segment(segment) ==
    IF segment.map THEN Err("Playlist", <<"init">>)
    ELSE IF segment.byte_range THEN Err("Playlist", <<"byte-range">>)
    ELSE IF \E i \in 1..Len(segment.keys) : segment.keys[i]
         THEN Err("Playlist", <<"encrypted">>)
    ELSE Ok(<<>>)

\* a cursor that keeps a sequence number the server no longer offers
ClampSequenceNever(next_sequence, media_sequence) == next_sequence

\* next_segment_url: if next_sequence < media_sequence { .. = media_sequence }
ClampSequence(next_sequence, media_sequence) ==
    IF next_sequence < media_sequence THEN media_sequence ELSE next_sequence

\* a cursor that hands out the same segment again
AdvanceSequenceStuck(next_sequence) == next_sequence

\* next_segment_url: self.next_sequence = Some(next_sequence + 1)
AdvanceSequence(next_sequence) == next_sequence + 1

Get(what, seq) == [kind |-> "GET", what |-> what, n |-> seq]
Sleep(ms) == [kind |-> "sleep", what |-> "refresh", n |-> ms]

\* a cursor that waits for more even when the playlist is complete
EndOfStreamWaits(r, pl) ==
    [reader |-> [r EXCEPT !.cached_playlist = None], out |-> "again",
     io |-> <<Sleep(hls_refresh_delay(pl.target_duration))>>]

\* next_segment_url, nothing to return and has_end_list:
\* self.ended = true; return Ok(None)
EndOfStream(r, pl) ==
    [reader |-> [r EXCEPT !.ended = TRUE], out |-> "none", io |-> <<>>]

\* a cursor that polls the playlist it already holds, without waiting
RefreshKeepsPlaylist(r, pl) == [reader |-> r, out |-> "again", io |-> <<>>]

\* next_segment_url, nothing to return and no has_end_list:
\* self.cached_playlist = None; sleep(hls_refresh_delay(..)); continue
Refresh(r, pl) ==
    [reader |-> [r EXCEPT !.cached_playlist = None], out |-> "again",
     io |-> <<Sleep(hls_refresh_delay(pl.target_duration))>>]

NoSegmentLeft(r, pl) ==
    IF pl.has_end_list THEN EndOfStream(r, pl) ELSE Refresh(r, pl)

\* One round of the loop of next_segment_url on a reader whose cached
\* playlist is pl: the reader afterwards, and whether the round returned
\* no segment ("none"), a segment's URL ("url"), an error ("err") or went
\* round again ("again").  index is next_sequence - media_sequence as an
\* integer; a negative one is a usize that wrapped, far beyond any count.
Cursor(r, pl) ==
    LET none == [seg |-> 0, index |-> 0, err |-> Pending]
    IN  IF pl.segment_count = 0
        THEN NoSegmentLeft(r, pl) @@ none
        ELSE LET next0 == IF IsSome(r.next_sequence) THEN r.next_sequence[1]
                          ELSE pl.media_sequence
                 next == ClampSequence(next0, pl.media_sequence)
                 r1 == IF next0 < pl.media_sequence
                       THEN [r EXCEPT !.next_sequence = Some(next)] ELSE r
                 index == next - pl.media_sequence
                 at == [none EXCEPT !.index = index]
             IN  IF index < 0 \/ index >= pl.segment_count
                 THEN NoSegmentLeft(r1, pl) @@ at
                 ELSE LET segment == Segment(pl.media_sequence + index)
                          v == validate_hls_segment(segment)
                          r2 == [r1 EXCEPT !.next_sequence =
                                              Some(AdvanceSequence(next))]
                      IN  IF v.tag # "Ok"
                          THEN [reader |-> r1, out |-> "err", io |-> <<>>]
                               @@ [at EXCEPT !.err = v]
                          ELSE IF ~segment.uri_ok
                          THEN [reader |-> r2, out |-> "err", io |-> <<>>]
                               @@ [at EXCEPT !.err = Err("InvalidUrl", <<>>)]
                          ELSE [reader |-> r2, out |-> "url", io |-> <<>>]
                               @@ [at EXCEPT !.seg = segment.seq]

Targets == {Millis(3000), Millis(10000)}

\* round is the parity of the rounds of next_segment_url's loop the call has
\* made, so that a round that leaves the reader as it was is still a step
NoHlsCall == [pc |-> "idle", buf_len |-> 0, seg |-> 0, index |-> 0,
              playlist |-> None, result |-> Pending, round |-> 0]

NoHist == [requested |-> <<>>, delivered |-> <<>>, clean |-> TRUE]

\* HlsStreamReader::new has fetched the playlist the server publishes
HlsOpen ==
    \E first \in 0..1, count \in 0..2, end \in BOOLEAN, target \in Targets,
       flaw \in Flaws \cup {"none"}, at \in 0..1 :
        /\ at = 1 <=> flaw # "none"
        /\ LET pl == [media_sequence |-> first, segment_count |-> count,
                      has_end_list |-> end, target_duration |-> target]
           IN  /\ server = [playlist |-> pl, flaw |-> flaw, at |-> at,
                             vod |-> end]
               /\ hls_reader = [open |-> TRUE, cached_playlist |-> Some(pl),
                                next_sequence |-> None,
                                current_response |-> None, ended |-> FALSE,
                                pos |-> 0]
        /\ hcall = NoHlsCall
        /\ last_io = <<>>
        /\ hist = NoHist

\* the server publishes its playlist anew: one more segment, the oldest
\* segment gone, or the end-of-list tag
ServerAdvance ==
    /\ hls_reader.open /\ ~server.playlist.has_end_list
    /\ LET pl == server.playlist
       IN  \/ /\ pl.media_sequence + pl.segment_count <= MaxSeq
              /\ server' = [server EXCEPT !.playlist.segment_count = @ + 1]
           \/ /\ pl.segment_count > 0
              /\ server' = [server EXCEPT !.playlist.segment_count = @ - 1,
                                          !.playlist.media_sequence = @ + 1]
           \/ server' = [server EXCEPT !.playlist.has_end_list = TRUE]
    /\ UNCHANGED <<hls_reader, hcall, last_io, hist, seek_result>>
    /\ UNCHANGED <<icyVars, regVars, fnVars, httpVars>>

Finish(result) == hcall' = [NoHlsCall EXCEPT !.result = result]

\* a reader that takes a short read for the end of the segment
SegmentDoneEarly(read) == read <= 1

\* read: if read > 0 { .. return Ok(read) }, else the segment is used up
SegmentDone(read) == read = 0

\* a reader that starts over once a response is used up
ExhaustedRearms(r) == [r EXCEPT !.current_response = None, !.ended = FALSE]

\* read: the response returned 0 bytes, self.current_response = None
Exhausted(r) == [r EXCEPT !.current_response = None]

\* read, from the top of its loop to the call of next_segment_url, with a
\* buffer of buf_len bytes: read the open response; drop it when it yields
\* 0 bytes; report the end if ended
ReadTop(buf_len) ==
    /\ LET r == hls_reader
           resp == r.current_response
       IN  \/ /\ IsSome(resp)
              /\ Finish(Err("Io", <<>>))
              /\ hist' = [hist EXCEPT !.clean = FALSE]
              /\ UNCHANGED hls_reader
           \/ \E k \in (IF IsSome(resp) THEN InnerRead(resp[1], buf_len)
                        ELSE {0}) :
                IF ~SegmentDone(k)
                THEN /\ hls_reader' =
                            [r EXCEPT !.pos = @ + k,
                                      !.current_response =
                                          Some(SubSeq(resp[1], k + 1, Len(resp[1])))]
                     /\ hist' = [hist EXCEPT !.delivered =
                                                 @ \o SubSeq(resp[1], 1, k)]
                     /\ Finish(Ok(<<k>>))
                ELSE /\ hls_reader' = Exhausted(r)
                     /\ UNCHANGED hist
                     /\ IF r.ended THEN Finish(Ok(<<0>>))
                        ELSE hcall' = [NoHlsCall EXCEPT !.pc = "cursor",
                                                        !.buf_len = buf_len]
    /\ last_io' = <<>>
    /\ seek_result' = NoSeek
    /\ UNCHANGED <<server, icyVars, regVars, fnVars, httpVars>>

\* <HlsStreamReader as Read>::read is called with a buffer of buf_len bytes
HlsRead(buf_len) ==
    /\ hls_reader.open /\ hcall.pc = "idle"
    /\ ReadTop(buf_len)

\* read is back at the top of its loop with the response of a new segment
HlsReadResponse ==
    /\ hcall.pc = "read"
    /\ ReadTop(hcall.buf_len)

\* load_playlist when nothing is cached: the playlist the server publishes
\* now, or the error of the GET or of the parse
Loads(r) ==
    IF IsSome(r.cached_playlist) THEN {Ok(r.cached_playlist)}
    ELSE {Ok(Some(server.playlist)), Err("HttpStatus", <<>>),
          Err("Playlist", <<>>)}

\* read: one round of next_segment_url, and what read does with its answer
HlsCursor ==
    /\ hcall.pc = "cursor"
    /\ IF hls_reader.ended
       THEN /\ Finish(Ok(<<0>>))
            /\ last_io' = <<>>
            /\ UNCHANGED <<hls_reader, hist>>
       ELSE \E loaded \in Loads(hls_reader) :
              LET fetched == IF IsSome(hls_reader.cached_playlist) THEN <<>>
                             ELSE <<Get("playlist", 0)>>
              IN  IF loaded.tag # "Ok"
                  THEN /\ Finish(Err(loaded.tag, <<>>))
                       /\ last_io' = fetched
                       /\ hist' = [hist EXCEPT !.clean = FALSE]
                       /\ UNCHANGED hls_reader
                  ELSE LET pl == loaded.val[1]
                           c == Cursor([hls_reader EXCEPT
                                           !.cached_playlist = Some(pl)], pl)
                       IN  /\ last_io' = fetched \o c.io
                           /\ UNCHANGED hist
                           /\ hls_reader' =
                                  IF c.out = "none"
                                  THEN [c.reader EXCEPT !.ended = TRUE]
                                  ELSE c.reader
                           /\ hcall' =
                                  [hcall EXCEPT
                                      !.index = c.index,
                                      !.playlist = Some(pl),
                                      !.seg = c.seg,
                                      !.result =
                                          IF c.out = "none" THEN Ok(<<0>>)
                                          ELSE IF c.out = "err"
                                          THEN Err(c.err.tag, c.err.val)
                                          ELSE @,
                                      !.round = IF c.out = "again"
                                                THEN 1 - @ ELSE 0,
                                      !.pc = IF c.out = "again" THEN "cursor"
                                             ELSE IF c.out = "url" THEN "request"
                                             ELSE "idle"]
    /\ seek_result' = NoSeek
    /\ UNCHANGED <<server, icyVars, regVars, fnVars, httpVars>>

\* read: request_stream(url) for the segment next_segment_url returned
HlsRequest ==
    /\ hcall.pc = "request"
    /\ last_io' = <<Get("segment", hcall.seg)>>
    /\ \/ /\ hls_reader' = [hls_reader EXCEPT
                               !.current_response = Some(Body(hcall.seg))]
          /\ hcall' = [hcall EXCEPT !.pc = "read"]
          /\ hist' = [hist EXCEPT !.requested = Append(@, hcall.seg)]
       \/ /\ Finish(Err("HttpStatus", <<>>))
          /\ hist' = [hist EXCEPT !.requested = Append(@, hcall.seg),
                                  !.clean = FALSE]
          /\ UNCHANGED hls_reader
    /\ seek_result' = NoSeek
    /\ UNCHANGED <<server, icyVars, regVars, fnVars, httpVars>>

\* std::io::SeekFrom values tried
SeekRequests ==
    {[from |-> f, off |-> o] : f \in {"Start", "End"}, o \in {0, 1}}
    \cup {[from |-> "Current", off |-> o] : o \in {-1, 0, 1}}

\* a reader that answers every seek relative to the current position
SeekAnswerRelative(request, position) ==
    IF request.from = "Current" THEN Ok(<<position>>)
    ELSE Err("Unsupported", <<>>)

\* Seek::seek of StreamReader and of HlsStreamReader
SeekAnswer(request, position) ==
    IF request.from = "Current" /\ request.off = 0 THEN Ok(<<position>>)
    ELSE Err("Unsupported", <<>>)

\* <StreamReader as Seek>::seek
StreamSeek(request) ==
    /\ ~hls_reader.open
    /\ seek_result' = [reader |-> "stream", from |-> request.from,
                       off |-> request.off,
                       result |-> SeekAnswer(request, pos)]
    /\ UNCHANGED <<icyVars, regVars, hlsVars, fnVars, httpVars>>

\* <HlsStreamReader as Seek>::seek
HlsSeek(request) ==
    /\ hls_reader.open /\ hcall.pc = "idle"
    /\ seek_result' = [reader |-> "hls", from |-> request.from,
                       off |-> request.off,
                       result |-> SeekAnswer(request, hls_reader.pos)]
    /\ UNCHANGED <<icyVars, regVars, hlsVars, fnVars, httpVars>>

\* a decoder's byte source is a StreamReader or an HlsStreamReader
InitStreams ==
    /\ RegistryNew /\ Quiet
    /\ \/ IcyOpen /\ HlsClosed
       \/ IcyClosed /\ HlsOpen

StreamReaderRead(buf_len) == ~hls_reader.open /\ IcyRead(buf_len)

NextStreams ==
    \/ \E buf_len \in 1..MaxBuf : StreamReaderRead(buf_len)
    \/ \E request \in SeekRequests : StreamSeek(request)
    \/ \E buf_len \in 1..MaxHlsBuf : HlsRead(buf_len)
    \/ HlsReadResponse
    \/ HlsCursor
    \/ HlsRequest
    \/ \E request \in SeekRequests : HlsSeek(request)
    \/ ServerAdvance

SpecStreams == InitStreams /\ [][NextStreams]_vars

(***************************************************************************)
(* hls_refresh_delay on its own                                            *)
(***************************************************************************)
MaxDelaySteps == 80   \* target durations tried: 0 .. 125 * MaxDelaySteps ms

\* target durations as as_millis() sees them: the low word in steps of
\* 125 ms, below 2^64 ms (hi = 0) and from 2^64 ms on (hi = 1)
DelayTargets ==
    {[hi |-> h, lo |-> 125 * k] : h \in 0..1, k \in 0..MaxDelaySteps}

InitDelay ==
    /\ RegistryNew /\ IcyClosed /\ HlsClosed
    /\ seek_result = NoSeek /\ HttpNew
    /\ arg \in DelayTargets
    /\ ret = None

RefreshDelay ==
    /\ ret = None
    /\ ret' = Some(hls_refresh_delay(arg))
    /\ UNCHANGED <<icyVars, regVars, hlsVars, seek_result, arg, httpVars>>

NextDelay == RefreshDelay

SpecDelay == InitDelay /\ [][NextDelay]_vars

(***************************************************************************)
(* Properties of the stream readers                                        *)
(***************************************************************************)
\* the segment a playlist lists with an init section, a byte range or a key
Unsupported(s) ==
    server.at = s /\ server.flaw \in {"map", "byte_range", "key"}

\* index of the segment due next in playlist pl for a cursor at next_sequence
DueIndex(next_sequence, pl) ==
    IF ~IsSome(next_sequence) \/ next_sequence[1] < pl.media_sequence THEN 0
    ELSE next_sequence[1] - pl.media_sequence

NothingDue(next_sequence, pl) ==
    pl.segment_count = 0 \/ DueIndex(next_sequence, pl) >= pl.segment_count

\* a step that is one round of next_segment_url on a playlist it holds or
\* has just loaded (hcall'.playlist)
CursorRound ==
    /\ hcall.pc = "cursor" /\ ~hls_reader.ended /\ server' = server
    /\ IsSome(hcall'.playlist)
    /\ <<hls_reader, hcall, last_io>>' # <<hls_reader, hcall, last_io>>

Requests(io, what) == {i \in 1..Len(io) : io[i].kind = "GET" /\ io[i].what = what}
Sleeps(io) == {i \in 1..Len(io) : io[i].kind = "sleep"}

\* C12: no GET is ever issued for a segment with an init section, a byte
\* range or a key; when such a segment is due, the round of the cursor ends
\* the read with the playlist error naming what is unsupported, and no
\* segment has been requested by it.
C12_ValidationPrecedesGet ==
    /\ [](\A i \in 1..Len(hist.requested) : ~Unsupported(hist.requested[i]))
    /\ [](hcall.pc = "request" => ~Unsupported(hcall.seg))
    /\ [][(/\ CursorRound
           /\ ~NothingDue(hls_reader.next_sequence, hcall'.playlist[1])
           /\ Unsupported(hcall'.playlist[1].media_sequence
                          + DueIndex(hls_reader.next_sequence,
                                     hcall'.playlist[1])))
          => /\ hcall'.pc = "idle"
             /\ hcall'.result.tag = "Playlist"
             /\ hcall'.result.val \in {<<"init">>, <<"byte-range">>,
                                       <<"encrypted">>}
             /\ hist' = hist
             /\ Requests(last_io', "segment") = {}
      ]_vars

\* a read failed on an encrypted segment after the segment before it had
\* been fetched
C12_Witness ==
    /\ hcall.pc = "idle" /\ hcall.result.tag = "Playlist"
    /\ hcall.result.val = <<"encrypted">>
    /\ hist.requested = <<0>>
    /\ server.flaw = "key"

\* C13: once ended is set no step clears it, changes next_sequence or pos,
\* requests a playlist or a segment, or sleeps; and a read on an ended
\* reader returns Ok(0).
C13_EndedIsTerminal ==
    /\ [](hls_reader.ended =>
            hcall.pc = "idle" /\ ~IsSome(hls_reader.current_response))
    /\ [][hls_reader.ended =>
            /\ hls_reader' = hls_reader
            /\ hist' = hist
            /\ last_io' = <<>> \/ last_io' = last_io
            /\ hcall' # hcall => hcall' = [NoHlsCall EXCEPT !.result = Ok(<<0>>)]
      ]_vars

\* a read on a reader that had ended after delivering bytes returned 0
C13_Witness ==
    /\ hls_reader.ended /\ hls_reader.pos > 0
    /\ last_io = <<>>
    /\ hcall = [NoHlsCall EXCEPT !.result = Ok(<<0>>)]
    /\ Len(hist.requested) >= 2

StrictlyIncreasing(seq) ==
    \A i, j \in 1..Len(seq) : i < j => seq[i] < seq[j]

\* C14: the index next_sequence - media_sequence the cursor computes is never
\* negative, and the segment it hands to the request is one the playlist it
\* holds lists: its sequence number is not below media_sequence.
C14_CursorNeverBelowMediaSequence ==
    /\ hcall.index >= 0
    /\ hcall.pc = "request" =>
          /\ IsSome(hls_reader.cached_playlist)
          /\ hcall.seg >= hls_reader.cached_playlist[1].media_sequence
          /\ hcall.seg = hls_reader.cached_playlist[1].media_sequence
                         + hcall.index
          /\ hcall.index < hls_reader.cached_playlist[1].segment_count

\* the cursor was behind a playlist that had moved on, and jumped to the
\* playlist's first segment: segment 2 is about to be fetched after segment 0
C14_Witness ==
    /\ hcall.pc = "request" /\ hcall.seg = 2 /\ hcall.index = 0
    /\ hist.requested = <<0>>

\* C15: when the cursor returns a segment the counter is one past it, and
\* the sequence numbers of the segments requested so far, across playlist
\* refreshes, are strictly increasing.
C15_SegmentsRequestedOnceInOrder ==
    /\ StrictlyIncreasing(hist.requested)
    /\ hcall.pc = "request" =>
          hls_reader.next_sequence = Some(hcall.seg + 1)

\* three segments were requested, with a refresh of the playlist since the
\* first
C15_Witness ==
    /\ Len(hist.requested) = 3
    /\ IsSome(hls_reader.cached_playlist)
    /\ hls_reader.cached_playlist[1].media_sequence > 0

\* C16: a round of the cursor that finds nothing due in a playlist with
\* end-of-list sets ended and makes the read return 0, with no sleep and no
\* request other than the load of the playlist if none was cached.
C16_CompleteAndNothingDueEnds ==
    [][(/\ CursorRound
        /\ hcall'.playlist[1].has_end_list
        /\ NothingDue(hls_reader.next_sequence, hcall'.playlist[1]))
       => /\ hls_reader'.ended
          /\ hls_reader'.cached_playlist = hcall'.playlist
          /\ hls_reader'.next_sequence = hls_reader.next_sequence
          /\ hcall'.pc = "idle" /\ hcall'.result = Ok(<<0>>)
          /\ Sleeps(last_io') = {}
          /\ last_io' = IF IsSome(hls_reader.cached_playlist) THEN <<>>
                        ELSE <<Get("playlist", 0)>>
      ]_vars

\* a reader that had waited on a live playlist loaded one with end-of-list
\* and nothing new, and ended
C16_Witness ==
    /\ hls_reader.ended /\ hcall.pc = "idle"
    /\ last_io = <<Get("playlist", 0)>>
    /\ hls_reader.next_sequence = Some(2)
    /\ ~server.vod

\* C17: a round of the cursor that finds nothing due in a playlist without
\* end-of-list drops the playlist, sleeps hls_refresh_delay of that
\* playlist's target duration and goes round again: not ended, no result,
\* counter unchanged; and the next round loads the playlist before anything
\* else.
C17_LiveAndNothingDueRefreshes ==
    /\ [][(/\ CursorRound
           /\ ~hcall'.playlist[1].has_end_list
           /\ NothingDue(hls_reader.next_sequence, hcall'.playlist[1]))
          => /\ hls_reader' = [hls_reader EXCEPT !.cached_playlist = None]
             /\ hcall'.pc = "cursor" /\ hcall'.result = Pending
             /\ Len(last_io') >= 1
             /\ last_io'[Len(last_io')] =
                    Sleep(hls_refresh_delay(hcall'.playlist[1].target_duration))
             /\ Requests(last_io', "segment") = {}
         ]_vars
    /\ [][(/\ hcall.pc = "cursor" /\ ~hls_reader.ended /\ server' = server
           /\ ~IsSome(hls_reader.cached_playlist)
           /\ <<hls_reader, hcall, last_io>>' # <<hls_reader, hcall, last_io>>)
          => /\ Len(last_io') >= 1 /\ last_io'[1] = Get("playlist", 0)
             /\ hcall'.pc = "request" =>
                    hls_reader'.cached_playlist = Some(server.playlist)
         ]_vars

\* after two segments the reader has dropped a live 10-second playlist and
\* slept 2000 ms
C17_Witness ==
    /\ hcall.pc = "cursor" /\ ~IsSome(hls_reader.cached_playlist)
    /\ Len(last_io) >= 1 /\ last_io[Len(last_io)] = Sleep(2000)
    /\ hls_reader.next_sequence = Some(2)
    /\ ~hls_reader.ended

\* half of a target duration of d.hi * 2^64 + d.lo ms, clamped to 500..2000
HalfClamped(d) ==
    IF d.hi > 0 \/ d.lo \div 2 > 2000 THEN 2000
    ELSE IF d.lo \div 2 < 500 THEN 500
    ELSE d.lo \div 2

\* C18 as claimed: for every target duration hls_refresh_delay is half its
\* milliseconds, rounded down and clamped to 500..2000 (10 s gives 2000,
\* 0.5 s gives 500).
C18_RefreshDelayIsHalfClamped ==
    IsSome(ret) => ret[1] = HalfClamped(arg)

IsPrefix(a, b) == Len(a) <= Len(b) /\ a = SubSeq(b, 1, Len(a))

\* the bodies of segments from..to, end to end
RECURSIVE Bodies(_, _)
Bodies(from, to) ==
    IF from > to THEN <<>> ELSE Body(from) \o Bodies(from + 1, to)

\* the bodies of the segments in seq, end to end
RECURSIVE BodiesOf(_)
BodiesOf(seq) ==
    IF seq = <<>> THEN <<>> ELSE Body(Head(seq)) \o BodiesOf(Tail(seq))

C20_SeekOnlyReportsPosition ==
    /\ [](seek_result # NoSeek =>
            LET position == IF seek_result.reader = "hls" THEN hls_reader.pos
                            ELSE pos
            IN  IF seek_result.from = "Current" /\ seek_result.off = 0
                THEN seek_result.result = Ok(<<position>>)
                ELSE seek_result.result.tag = "Unsupported")
    /\ [][(seek_result' # NoSeek /\ seek_result' # seek_result)
          => UNCHANGED <<icyVars, hlsVars>>]_vars

\* the HLS reader answered Current(0) with its position after three bytes
C20_Witness ==
    /\ seek_result.reader = "hls"
    /\ seek_result.from = "Current" /\ seek_result.off = 0
    /\ seek_result.result = Ok(<<3>>)
    /\ hls_reader.pos = 3

(***************************************************************************)
(* fetch_hls_media_playlist and select_hls_variant_url                     *)
(***************************************************************************)
MaxVariants == 3      \* variant streams in a master playlist

\* BANDWIDTH values a master playlist declares
Bandwidths == {500000, 1200000, 2000000}

\* a VariantStream: its kind, its declared bandwidth and whether its URI
\* resolves against the playlist's URL; the URI of the i-th variant is i
VariantStreams ==
    {[kind |-> k, bandwidth |-> b, uri_ok |-> u] :
        k \in {"ExtXStreamInf", "ExtXIFrame"}, b \in Bandwidths,
        u \in BOOLEAN}

\* let VariantStream::ExtXStreamInf { .. } = variant else { continue }
IsStreamInf(variant) == variant.kind = "ExtXStreamInf"

\* a selection that keeps the lowest bandwidth
BetterIsLower(bandwidth, best) ==
    IF IsSome(best) THEN bandwidth < best[1] ELSE TRUE

\* best.map(|(_, current)| bandwidth > current).unwrap_or(true)
Better(bandwidth, best) ==
    IF IsSome(best) THEN bandwidth > best[1] ELSE TRUE

\* the loop of select_hls_variant_url from variant i on; best is the index
\* of the variant held so far
RECURSIVE BestVariant(_, _, _)
BestVariant(master, i, best) ==
    IF i > Len(master) THEN best
    ELSE IF ~IsStreamInf(master[i]) THEN BestVariant(master, i + 1, best)
    ELSE IF Better(master[i].bandwidth,
                   IF IsSome(best) THEN Some(master[best[1]].bandwidth)
                   ELSE None)
    THEN BestVariant(master, i + 1, Some(i))
    ELSE BestVariant(master, i + 1, best)

\* a selection among all the variants, I-frame variants included
SelectAmongAll(master) ==
    IF master = <<>> THEN Err("Playlist", <<"no stream variants">>)
    ELSE Ok(<<CHOOSE i \in 1..Len(master) :
                 \A j \in 1..Len(master) :
                    master[j].bandwidth <= master[i].bandwidth>>)

\* select_hls_variant_url: the index of the variant whose URL it returns
select_hls_variant_url(master) ==
    LET best == BestVariant(master, 1, None)
    IN  IF ~IsSome(best) THEN Err("Playlist", <<"no stream variants">>)
        ELSE IF master[best[1]].kind = "ExtXIFrame"
        THEN Err("Playlist", <<"no playable stream variants">>)
        ELSE IF ~master[best[1]].uri_ok THEN Err("InvalidUrl", <<best[1]>>)
        ELSE Ok(<<best[1]>>)

\* what the playlist URL answers with: a media playlist, a master playlist
\* with up to MaxVariants variants, or a body that is neither
HlsBodies ==
    {[body |-> "media", master |-> <<>>], [body |-> "other", master |-> <<>>]}
    \cup {[body |-> "master", master |-> m] :
            m \in UNION {[1..k -> VariantStreams] : k \in 0..MaxVariants}}

\* fetch_hls_media_playlist: every outcome on body a.  selected is what
\* select_hls_variant_url returned, io the GETs issued, in order.
Fetches(a) ==
    LET first == Get("playlist", 0)
        out(result, io, selected) ==
            [result |-> result, io |-> io, selected |-> selected]
        s == select_hls_variant_url(a.master)
    IN  {out(Err("HttpStatus", <<>>), <<first>>, Pending),
         out(Err("Http", <<>>), <<first>>, Pending)}
        \cup
        IF a.body = "media" THEN {out(Ok(<<0>>), <<first>>, Pending)}
        ELSE IF a.body = "other"
        THEN {out(Err("Playlist", <<"master parse failed">>), <<first>>,
                  Pending)}
        ELSE IF s.tag # "Ok" THEN {out(s, <<first>>, s)}
        ELSE LET second == Get("variant", s.val[1])
             IN  {out(Ok(s.val), <<first, second>>, s),
                  out(Err("HttpStatus", <<>>), <<first, second>>, s),
                  out(Err("Playlist", <<"media parse failed">>),
                      <<first, second>>, s)}

InitVariant ==
    /\ RegistryNew /\ IcyClosed /\ HlsClosed
    /\ seek_result = NoSeek /\ HttpNew
    /\ arg \in HlsBodies
    /\ ret = None

FetchHlsMediaPlaylist ==
    /\ ret = None
    /\ arg \in HlsBodies
    /\ \E o \in Fetches(arg) : ret' = Some(o)
    /\ UNCHANGED <<icyVars, regVars, hlsVars, seek_result, arg, httpVars>>

NextVariant == FetchHlsMediaPlaylist

SpecVariant == InitVariant /\ [][NextVariant]_vars

\* the regular variants of a master playlist, by index
Regular(master) ==
    {i \in 1..Len(master) : master[i].kind = "ExtXStreamInf"}

\* C21: on a master playlist with a regular variant select_hls_variant_url
\* settles on a regular variant whose bandwidth is the maximum over all
\* regular variants, whatever the order of the variants and whatever I-frame
\* variants stand between them.
C21_SelectsHighestBandwidth ==
    (IsSome(ret) /\ arg.body = "master" /\ Regular(arg.master) # {}
     /\ ret[1].selected.tag # "none")
    => LET s == ret[1].selected
       IN  /\ s.tag \in {"Ok", "InvalidUrl"}
           /\ s.val[1] \in Regular(arg.master)
           /\ \A i \in Regular(arg.master) :
                 arg.master[i].bandwidth <= arg.master[s.val[1]].bandwidth

\* 500000 listed after 1200000 with an I-frame variant of 2000000 between
\* them: the 1200000 variant was selected and its playlist requested
C21_Witness ==
    /\ IsSome(ret) /\ arg.body = "master" /\ Len(arg.master) = 3
    /\ arg.master[1].kind = "ExtXStreamInf"
    /\ arg.master[1].bandwidth = 1200000
    /\ arg.master[2].kind = "ExtXIFrame" /\ arg.master[2].bandwidth = 2000000
    /\ arg.master[3].kind = "ExtXStreamInf"
    /\ arg.master[3].bandwidth = 500000
    /\ ret[1].selected = Ok(<<1>>)
    /\ ret[1].io = <<Get("playlist", 0), Get("variant", 1)>>

\* C22: an I-frame variant is never the one selected, and a master playlist
\* without a regular variant (empty or I-frame only) ends in a playlist
\* error with no request after the one that fetched the master playlist.
C22_IFrameNeverSelected ==
    (IsSome(ret) /\ arg.body = "master") =>
        LET o == ret[1]
        IN  /\ \A i \in 1..Len(arg.master) :
                  arg.master[i].kind = "ExtXIFrame" =>
                      /\ o.selected.tag \in {"Ok", "InvalidUrl"}
                            => o.selected.val[1] # i
                      /\ \A j \in 1..Len(o.io) : o.io[j] # Get("variant", i)
            /\ Regular(arg.master) = {} =>
                  /\ o.io = <<Get("playlist", 0)>>
                  /\ o.selected.tag \in {"Playlist", "none"}
                  /\ o.selected.tag = "Playlist" => o.result = o.selected
                  /\ o.result.tag # "Ok"

\* only I-frame variants, the one with the highest bandwidth among them:
\* the master playlist was fetched, nothing selected, nothing else requested
C22_Witness ==
    /\ IsSome(ret) /\ arg.body = "master" /\ Len(arg.master) = 2
    /\ \A i \in 1..2 : arg.master[i].kind = "ExtXIFrame"
    /\ arg.master[2].bandwidth = 2000000
    /\ ret[1].selected.tag = "Playlist"
    /\ ret[1].result = Err("Playlist", <<"no stream variants">>)
    /\ ret[1].io = <<Get("playlist", 0)>>

(***************************************************************************)
(* resolve_playlist                                                        *)
(***************************************************************************)
MaxLines == 3         \* lines in a playlist body

\* text is a sequence of code points, as in parse_icy_metadata_block
StartsWith(s, prefix) ==
    Len(s) >= Len(prefix) /\ SubSeq(s, 1, Len(prefix)) = prefix

\* str::to_lowercase on ASCII text
ToLowercase(s) ==
    [i \in 1..Len(s) |-> IF s[i] \in 65..90 THEN s[i] + 32 ELSE s[i]]

\* str::lines: the text between line feeds, without a carriage return
\* before the line feed and without an empty piece after the last one
Lines(body) ==
    LET pieces == Split(body, 10)
        kept == IF pieces[Len(pieces)] = <<>>
                THEN SubSeq(pieces, 1, Len(pieces) - 1) ELSE pieces
    IN  [i \in 1..Len(kept) |->
            IF kept[i] # <<>> /\ kept[i][Len(kept[i])] = 13
            THEN SubSeq(kept[i], 1, Len(kept[i]) - 1) ELSE kept[i]]

HttpPrefix == <<104, 116, 116, 112, 58, 47, 47>>    \* http://
HttpsPrefix == <<104, 116, 116, 112, 115, 58, 47, 47>>   \* https://

IsLetter(c) == c \in 65..90 \/ c \in 97..122

\* whether s begins with a URL scheme and ':'
HasScheme(s) ==
    LET i == IndexOf(s, 58)
    IN  i > 1 /\ \A j \in 1..(i - 1) : IsLetter(s[j])

\* Url::parse(s).ok(): a URL with a scheme parses, a relative reference
\* does not
UrlParse(s) == IF HasScheme(s) THEN Some(s) ELSE None

\* position of the n-th occurrence of c in s, 0 if there is none
RECURSIVE NthIndexOf(_, _, _)
NthIndexOf(s, c, n) ==
    LET i == IndexOf(s, c)
    IN  IF i = 0 THEN 0
        ELSE IF n = 1 THEN i
        ELSE LET rest == NthIndexOf(SubSeq(s, i + 1, Len(s)), c, n - 1)
             IN  IF rest = 0 THEN 0 ELSE i + rest

LastIndexOf(s, c) ==
    LET hit == {i \in 1..Len(s) : s[i] = c}
    IN  IF hit = {} THEN 0 ELSE CHOOSE i \in hit : \A j \in hit : j <= i

\* Url::join on an http(s) base scheme://host/path: a reference with a scheme
\* stands for itself, "//authority.." keeps the scheme and fails on an empty
\* authority or one with a space, "/path" keeps the origin, anything else
\* replaces the last path segment, and the empty reference is the base
Join(base, reference) ==
    LET colon == IndexOf(base, 58)
        slash3 == NthIndexOf(base, 47, 3)
        origin == IF slash3 = 0 THEN base ELSE SubSeq(base, 1, slash3 - 1)
        dir == IF slash3 = 0 THEN base \o <<47>>
               ELSE SubSeq(base, 1, LastIndexOf(base, 47))
        after == SubSeq(reference, 3, Len(reference))
        stop == IndexOf(after, 47)
        authority == IF stop = 0 THEN after ELSE SubSeq(after, 1, stop - 1)
    IN  IF HasScheme(reference) THEN Ok(reference)
        ELSE IF StartsWith(reference, <<47, 47>>)
        THEN IF authority = <<>> \/ IndexOf(authority, 32) # 0
             THEN Err("ParseError", <<>>)
             ELSE Ok(SubSeq(base, 1, colon) \o reference)
        ELSE IF reference = <<>> THEN Ok(base)
        ELSE IF Head(reference) = 47 THEN Ok(origin \o reference)
        ELSE Ok(dir \o reference)

\* the candidate of a line of the body, if it has one: the value of a
\* key=value line whose key starts with "file", the line itself when it has
\* no '='
Candidate(raw) ==
    LET line == Trim(raw)
        i == IndexOf(line, 61)
    IN  IF line = <<>> \/ Head(line) = 35 THEN None
        ELSE IF i # 0
        THEN IF StartsWith(ToLowercase(Trim(SubSeq(line, 1, i - 1))),
                           <<102, 105, 108, 101>>)
             THEN Some(Trim(SubSeq(line, i + 1, Len(line))))
             ELSE None
        ELSE Some(line)

IsAbsolute(candidate) ==
    StartsWith(candidate, HttpPrefix) \/ StartsWith(candidate, HttpsPrefix)

\* what one candidate resolves to: itself when absolute, else joined to the
\* base when there is a base and the join succeeds
Resolved(candidate, base) ==
    IF IsAbsolute(candidate) THEN Some(candidate)
    ELSE IF IsSome(base) /\ Join(base[1], candidate).tag = "Ok"
    THEN Some(Join(base[1], candidate).val)
    ELSE None

\* the loop of resolve_playlist over the lines from the first on
RECURSIVE ResolveLines(_, _)
ResolveLines(lines, base) ==
    IF lines = <<>> THEN None
    ELSE LET candidate == Candidate(Head(lines))
         IN  IF IsSome(candidate) /\ IsSome(Resolved(candidate[1], base))
             THEN Resolved(candidate[1], base)
             ELSE ResolveLines(Tail(lines), base)

resolve_playlist(body, base_url) ==
    ResolveLines(Lines(body), UrlParse(base_url))

\* lines a playlist body is made of
PlaylistLines ==
    {<<>>,
     <<35, 99>>,
     <<104, 116, 116, 112, 58, 47, 47, 97, 47, 49>>,
     <<70, 105, 108, 101, 49, 61, 104, 116, 116, 112, 58, 47, 47, 98, 47, 50>>,
     <<84, 105, 116, 108, 101, 49, 61, 120>>,
     <<115, 46, 109, 112, 51>>,
     <<47, 47>>,
     <<104, 116, 116, 112, 58, 47, 47, 99, 47, 51, 63, 105, 61, 49>>,
     <<32, 102, 105, 108, 101, 50, 32, 61, 32, 116, 46, 109, 112, 51, 32>>}
\* in the order above: (blank) | #c | http://a/1 | File1=http://b/2 | Title1=x | s.mp3 | // | http://c/3?i=1 |  file2 = t.mp3 

\* the URL the body was fetched from, and a base that is no URL
BaseUrls == {<<104, 116, 116, 112, 58, 47, 47, 104, 47, 100, 47, 108, 46, 109, 51, 117>>,
             <<110, 111, 117, 114, 108>>}

RECURSIVE JoinLines(_)
JoinLines(lines) ==
    IF lines = <<>> THEN <<>>
    ELSE Head(lines) \o <<10>> \o JoinLines(Tail(lines))

PlaylistBodies ==
    {JoinLines(ls) : ls \in UNION {[1..k -> PlaylistLines] : k \in 0..MaxLines}}

InitPlaylist ==
    /\ RegistryNew /\ IcyClosed /\ HlsClosed
    /\ seek_result = NoSeek /\ HttpNew
    /\ arg \in [body : PlaylistBodies, base_url : BaseUrls]
    /\ ret = None

ResolvePlaylist ==
    /\ ret = None
    /\ arg \in [body : PlaylistBodies, base_url : BaseUrls]
    /\ ret' = Some(resolve_playlist(arg.body, arg.base_url))
    /\ UNCHANGED <<icyVars, regVars, hlsVars, seek_result, arg, httpVars>>

NextPlaylist == ResolvePlaylist

SpecPlaylist == InitPlaylist /\ [][NextPlaylist]_vars

\* the candidates of the lines of a body, in order
RECURSIVE CandidatesOf(_)
CandidatesOf(lines) ==
    IF lines = <<>> THEN <<>>
    ELSE Candidate(Head(lines)) \o CandidatesOf(Tail(lines))

\* C23 as claimed: the first candidate line alone decides the outcome: the
\* result is what that candidate resolves to, and nothing when it cannot be
\* resolved; a later candidate line is never used.
C23_FirstCandidateDecides ==
    IsSome(ret) =>
        LET candidates == CandidatesOf(Lines(arg.body))
        IN  ret[1] = IF candidates = <<>> THEN None
                     ELSE Resolved(candidates[1], UrlParse(arg.base_url))

\* a candidate as the claim has it: any line that begins with http:// or
\* https:// is a bare URI, whatever follows
ClaimedCandidate(raw) ==
    IF IsAbsolute(Trim(raw)) THEN Some(Trim(raw)) ELSE Candidate(raw)

RECURSIVE ClaimedCandidatesOf(_)
ClaimedCandidatesOf(lines) ==
    IF lines = <<>> THEN <<>>
    ELSE ClaimedCandidate(Head(lines)) \o ClaimedCandidatesOf(Tail(lines))

\* C24 as claimed: a line is a candidate exactly when it is a bare URI or a
\* key=value line whose key starts with "file" in any case; a bare absolute
\* URI is one whatever characters it contains.  So a body without such a
\* line resolves to nothing, and a body whose first such line is or carries
\* an absolute URL resolves to that URL.
C24_CandidateLines ==
    IsSome(ret) =>
        LET candidates == ClaimedCandidatesOf(Lines(arg.body))
        IN  /\ candidates = <<>> => ret[1] = None
            /\ (candidates # <<>> /\ IsAbsolute(candidates[1]))
                  => ret[1] = Some(candidates[1])

(***************************************************************************)
(* HTTP options, http_client and request_stream                            *)
(***************************************************************************)
MaxHttpCalls == 3     \* HTTP calls (setters and requests) begun

\* what the HTTP calls leave alone
notHttp == <<icyVars, regVars, hlsVars, seek_result, fnVars>>

\* PEM bundles passed to http_add_root_cert_pem: one certificate, or text
\* Certificate::from_pem_bundle rejects
Pems == {"c1", "bad"}

\* status codes a server answers with
Statuses == {200, 204, 301, 404, 500}

\* a check that lets redirects through as well
IsSuccessOrRedirect(status) == status \in 200..399

\* StatusCode::is_success
IsSuccess(status) == status \in 200..299

\* a Mutex that is handed out while it is held
CanLockOptionsAlways(t) == TRUE

\* Mutex::lock on HTTP_OPTIONS returns once no thread holds it
CanLockOptions(t) == HTTP_OPTIONS.owner = None

OptionsNow ==
    [allow_invalid_certs |-> HTTP_OPTIONS.allow_invalid_certs,
     extra_roots |-> HTTP_OPTIONS.extra_roots]

HttpSet(t, r) == http_thr' = [http_thr EXCEPT ![t] = r]

\* request_stream(url, want_metadata) is called on thread t
RequestBegin(t) ==
    /\ http_thr[t].pc = "idle" /\ http_hist.calls < MaxHttpCalls
    /\ HttpSet(t, [HttpIdle EXCEPT !.op = "request_stream", !.pc = "lock",
                                   !.began = Len(http_hist.options)])
    /\ http_hist' = [http_hist EXCEPT !.calls = @ + 1]
    /\ UNCHANGED <<HTTP_OPTIONS, notHttp>>

\* a setter is called on thread t; http_add_root_cert_pem parses its
\* argument before it takes the lock and returns the error if that fails
SetterBegin(t, op, value) ==
    /\ http_thr[t].pc = "idle" /\ http_hist.calls < MaxHttpCalls
    /\ HttpSet(t, IF op = "http_add_root_cert_pem" /\ value = "bad"
                  THEN [HttpIdle EXCEPT !.op = op, !.pc = "done",
                                        !.value = <<value>>,
                                        !.result = Err("Http", <<>>)]
                  ELSE [HttpIdle EXCEPT !.op = op, !.pc = "lock",
                                        !.value = <<value>>])
    /\ http_hist' = [http_hist EXCEPT !.calls = @ + 1]
    /\ UNCHANGED <<HTTP_OPTIONS, notHttp>>

\* http_options().lock() returns on thread t
OptionsLock(t) ==
    /\ http_thr[t].pc = "lock" /\ CanLockOptions(t)
    /\ HTTP_OPTIONS' = [HTTP_OPTIONS EXCEPT !.owner = Some(t)]
    /\ HttpSet(t, [http_thr[t] EXCEPT
                      !.pc = IF http_thr[t].op = "request_stream"
                             THEN "snapshot_allow" ELSE "write"])
    /\ UNCHANGED <<http_hist, notHttp>>

\* http_options_snapshot: guard.allow_invalid_certs is read
SnapshotAllow(t) ==
    /\ http_thr[t].pc = "snapshot_allow"
    /\ HttpSet(t, [http_thr[t] EXCEPT
                      !.allow_invalid = HTTP_OPTIONS.allow_invalid_certs,
                      !.pc = "snapshot_roots"])
    /\ UNCHANGED <<HTTP_OPTIONS, http_hist, notHttp>>

\* http_options_snapshot: guard.extra_roots.clone(), and the guard dropped
SnapshotRoots(t) ==
    /\ http_thr[t].pc = "snapshot_roots"
    /\ HttpSet(t, [http_thr[t] EXCEPT
                      !.extra_roots = HTTP_OPTIONS.extra_roots,
                      !.pc = "build"])
    /\ HTTP_OPTIONS' = [HTTP_OPTIONS EXCEPT !.owner = None]
    /\ UNCHANGED <<http_hist, notHttp>>

\* the assignment a setter makes under the lock
Written(op, value) ==
    IF op = "http_set_allow_invalid_certs"
    THEN [OptionsNow EXCEPT !.allow_invalid_certs = value[1]]
    ELSE IF op = "http_add_root_cert_pem"
    THEN [OptionsNow EXCEPT !.extra_roots = @ \o value]
    ELSE [OptionsNow EXCEPT !.extra_roots = <<>>]

\* a setter's write, the guard dropped, Ok(())
SetterWrite(t) ==
    /\ http_thr[t].pc = "write"
    /\ LET new == Written(http_thr[t].op, http_thr[t].value)
       IN  /\ HTTP_OPTIONS' = new @@ [owner |-> None]
           /\ http_hist' = [http_hist EXCEPT !.options = Append(@, new)]
    /\ HttpSet(t, [http_thr[t] EXCEPT !.pc = "done", !.result = Ok(<<>>)])
    /\ UNCHANGED notHttp

\* http_client after the snapshot: the client is built from the snapshot
\* with the platform's certificate store, or with the bundled one when that
\* build fails, or not at all
BuildClient(t) ==
    /\ http_thr[t].pc = "build"
    /\ \E built \in {"native", "webpki", "neither"} :
         HttpSet(t, IF built = "neither"
                    THEN [http_thr[t] EXCEPT !.pc = "done",
                                             !.result = Err("Http", <<>>)]
                    ELSE [http_thr[t] EXCEPT
                             !.pc = "send",
                             !.client =
                                 Some([allow_invalid_certs |->
                                           http_thr[t].allow_invalid,
                                       extra_roots |->
                                           http_thr[t].extra_roots,
                                       store |-> built])])
    /\ UNCHANGED <<HTTP_OPTIONS, http_hist, notHttp>>

\* request_stream from request.send() on: the GET fails, or is answered
\* with a status; a status that is not a success becomes HttpStatus
Send(t) ==
    /\ http_thr[t].pc = "send"
    /\ \/ HttpSet(t, [http_thr[t] EXCEPT !.pc = "done", !.gets = @ + 1,
                                         !.result = Err("Http", <<>>)])
       \/ \E status \in Statuses :
            HttpSet(t, [http_thr[t] EXCEPT
                           !.pc = "done", !.gets = @ + 1,
                           !.response = Some(status),
                           !.result = IF IsSuccess(status)
                                      THEN Ok(<<status>>)
                                      ELSE Err("HttpStatus", <<status>>)])
    /\ UNCHANGED <<HTTP_OPTIONS, http_hist, notHttp>>

\* the call returns to its caller
HttpReturn(t) ==
    /\ http_thr[t].pc = "done"
    /\ HttpSet(t, HttpIdle)
    /\ UNCHANGED <<HTTP_OPTIONS, http_hist, notHttp>>

InitHttp == RegistryNew /\ IcyClosed /\ HlsClosed /\ Quiet

NextHttp ==
    \E t \in Threads :
        \/ RequestBegin(t)
        \/ \E allow \in BOOLEAN :
              SetterBegin(t, "http_set_allow_invalid_certs", allow)
        \/ \E pem \in Pems : SetterBegin(t, "http_add_root_cert_pem", pem)
        \/ SetterBegin(t, "http_clear_root_certs", "all")
        \/ OptionsLock(t)
        \/ SnapshotAllow(t)
        \/ SnapshotRoots(t)
        \/ SetterWrite(t)
        \/ BuildClient(t)
        \/ Send(t)
        \/ HttpReturn(t)

SpecHttp == InitHttp /\ [][NextHttp]_vars

\* C25: a request_stream call that was answered with a status that is not
\* 2xx returns HttpStatus with that status code, hands no response to the
\* caller, and has sent its GET exactly once; no call sends a GET twice.
C25_NonSuccessIsHttpStatus ==
    \A t \in Threads :
        /\ http_thr[t].gets <= 1
        /\ (/\ http_thr[t].pc = "done" /\ http_thr[t].op = "request_stream"
            /\ IsSome(http_thr[t].response)
            /\ http_thr[t].response[1] \notin 200..299)
           => /\ http_thr[t].result =
                    Err("HttpStatus", <<http_thr[t].response[1]>>)
              /\ http_thr[t].gets = 1

\* one request answered 301 and another answered 500, each sent once
C25_Witness ==
    /\ http_thr["t1"].pc = "done" /\ http_thr["t1"].response = Some(301)
    /\ http_thr["t1"].result = Err("HttpStatus", <<301>>)
    /\ http_thr["t1"].gets = 1
    /\ http_thr["t2"].pc = "done" /\ http_thr["t2"].response = Some(500)
    /\ http_thr["t2"].result = Err("HttpStatus", <<500>>)
    /\ http_thr["t2"].gets = 1

\* the options a client was built with
ClientOptions(client) ==
    [allow_invalid_certs |-> client.allow_invalid_certs,
     extra_roots |-> client.extra_roots]

\* C26: a client is built from the two options as they stood together at
\* one moment since its request began, never from one option's old value
\* and the other's new one, also when the first build fails and the client
\* is built again; and no step of another call changes the client of a
\* request in flight.
C26_ClientFromOneSnapshot ==
    /\ [](\A t \in Threads :
            IsSome(http_thr[t].client) =>
                \E k \in http_thr[t].began..Len(http_hist.options) :
                    ClientOptions(http_thr[t].client[1])
                        = http_hist.options[k])
    /\ [][\A t \in Threads :
            (IsSome(http_thr[t].client) /\ http_thr'[t].pc # "idle")
            => http_thr'[t].client = http_thr[t].client]_vars

\* a request that began before any setter ran, took its snapshot after
\* invalid certificates were allowed, and is in flight with that client
\* while a root certificate has been added since
C26_Witness ==
    /\ http_thr["t1"].pc = "send" /\ http_thr["t1"].began = 1
    /\ http_thr["t1"].client[1].allow_invalid_certs
    /\ http_thr["t1"].client[1].extra_roots = <<>>
    /\ http_thr["t1"].client[1].store = "webpki"
    /\ HTTP_OPTIONS.allow_invalid_certs
    /\ HTTP_OPTIONS.extra_roots = <<"c1">>
    /\ Len(http_hist.options) = 3

(***************************************************************************)
(* parse_icy_metadata_block on its own                                     *)
(***************************************************************************)
MaxFields == 3        \* fields in a metadata block

\* Fields a block is made of: the text, the pair it denotes, and whether it
\* is key=value with exactly one '=', a non-empty key and a non-empty value
\* (surrounding blanks and quotes aside).
Fields ==
    << \* 'a=b'
       [text |-> <<97, 61, 98>>,
        pairs |-> <<<<<<97>>, <<98>>>>>>, well_formed |-> TRUE],
       \* "c='d'"
       [text |-> <<99, 61, 39, 100, 39>>,
        pairs |-> <<<<<<99>>, <<100>>>>>>, well_formed |-> TRUE],
       \* ' e = "f" '
       [text |-> <<32, 101, 32, 61, 32, 34, 102, 34, 32>>,
        pairs |-> <<<<<<101>>, <<102>>>>>>, well_formed |-> TRUE],
       \* '=x'
       [text |-> <<61, 120>>,
        pairs |-> <<>>, well_formed |-> FALSE],
       \* 'g='
       [text |-> <<103, 61>>,
        pairs |-> <<>>, well_formed |-> FALSE],
       \* 'h'
       [text |-> <<104>>,
        pairs |-> <<>>, well_formed |-> FALSE],
       \* 'i=j=k'
       [text |-> <<105, 61, 106, 61, 107>>,
        pairs |-> <<>>, well_formed |-> FALSE] >>

RECURSIVE JoinFields(_)
JoinFields(fs) ==
    IF fs = <<>> THEN <<>>
    ELSE IF Len(fs) = 1 THEN Fields[Head(fs)].text
    ELSE Fields[Head(fs)].text \o <<59>> \o JoinFields(Tail(fs))

\* the bytes of a block: the fields separated by ';', a closing ';' or
\* none, and null padding
FieldBlock(fs, closed, padding) ==
    JoinFields(fs) \o (IF closed THEN <<59>> ELSE <<>>)
    \o [i \in 1..padding |-> 0]

FieldBlocks ==
    {[fields |-> fs, bytes |-> FieldBlock(fs, closed, padding)] :
        fs \in UNION {[1..k -> 1..Len(Fields)] : k \in 0..MaxFields},
        closed \in BOOLEAN, padding \in {0, 2}}

InitParse ==
    /\ RegistryNew /\ IcyClosed /\ HlsClosed
    /\ seek_result = NoSeek /\ HttpNew
    /\ arg \in FieldBlocks
    /\ ret = None

ParseBlock ==
    /\ ret = None
    /\ arg \in FieldBlocks
    /\ ret' = Some(parse_icy_metadata_block(arg.bytes))
    /\ UNCHANGED <<icyVars, regVars, hlsVars, seek_result, arg, httpVars>>

NextParse == ParseBlock

SpecParse == InitParse /\ [][NextParse]_vars

\* the pairs the well-formed fields among fs denote, in order
RECURSIVE PairsOfFields(_)
PairsOfFields(fs) ==
    IF fs = <<>> THEN <<>>
    ELSE Fields[Head(fs)].pairs \o PairsOfFields(Tail(fs))

\* C27: a block of k well-formed fields separated by ';' yields exactly the
\* k pairs of its fields, in order, with the quotes around the values and
\* the null padding after the text removed.
C27_WellFormedFieldsAllParsed ==
    (IsSome(ret) /\ \A i \in 1..Len(arg.fields) :
                        Fields[arg.fields[i]].well_formed)
    => /\ ret[1] = PairsOfFields(arg.fields)
       /\ Len(ret[1]) = Len(arg.fields)

\* c='d'; e = "f" ;a=b; followed by two null bytes gave (c,d), (e,f), (a,b)
C27_Witness ==
    /\ IsSome(ret) /\ arg.fields = <<2, 3, 1>>
    /\ arg.bytes[Len(arg.bytes)] = 0 /\ arg.bytes[Len(arg.bytes) - 2] = 59
    /\ ret[1] = << <<<<99>>, <<100>>>>, <<<<101>>, <<102>>>>,
                   <<<<97>>, <<98>>>> >>

\* C28 as claimed: a field yields a pair only when it has exactly one '='
\* with a non-empty key and a non-empty value; a field with an empty key,
\* an empty value, no '=' or more than one '=' yields nothing and leaves the
\* pairs of the other fields as they are.
C28_MalformedFieldsSkipped ==
    IsSome(ret) => ret[1] = PairsOfFields(arg.fields)

(***************************************************************************)
(* Reads on the HLS reader that run on once they are called                *)
(***************************************************************************)
InitLive == RegistryNew /\ Quiet /\ IcyClosed /\ HlsOpen

NextLive ==
    \/ \E buf_len \in 1..MaxHlsBuf : HlsRead(buf_len)
    \/ HlsReadResponse
    \/ HlsCursor
    \/ HlsRequest
    \/ ServerAdvance

\* The thread inside read keeps running: each step of a read in progress
\* is taken in the end.  Nothing obliges the server to publish a new
\* playlist or the caller to read again.
SpecLive ==
    /\ InitLive /\ [][NextLive]_vars
    /\ WF_vars(HlsReadResponse) /\ WF_vars(HlsCursor) /\ WF_vars(HlsRequest)

\* C29 as claimed: a read makes a bounded number of wait-and-refetch rounds,
\* so every read call returns, also when the live playlist never gains a
\* segment and never declares its end.
C29_ReadOnLivePlaylistReturns ==
    (hcall.pc # "idle") ~> (hcall.pc = "idle")

(***************************************************************************)
(* is_hls_playlist                                                         *)
(***************************************************************************)
EndsWith(s, suffix) ==
    Len(s) >= Len(suffix)
    /\ SubSeq(s, Len(s) - Len(suffix) + 1, Len(s)) = suffix

\* str::contains
Contains(s, sub) ==
    \E i \in 1..(Len(s) - Len(sub) + 1) :
        SubSeq(s, i, i + Len(sub) - 1) = sub

M3u8Suffix == <<46, 109, 51, 117, 56>>   \* .m3u8
VndAppleMpegurl == <<118, 110, 100, 46, 97, 112, 112, 108, 101, 46, 109, 112, 101, 103, 117, 114, 108>>   \* vnd.apple.mpegurl
XMpegurl == <<97, 112, 112, 108, 105, 99, 97, 116, 105, 111, 110, 47, 120, 45, 109, 112, 101, 103, 117, 114, 108>>   \* application/x-mpegurl
Mpegurl == <<109, 112, 101, 103, 117, 114, 108>>   \* mpegurl

is_hls_playlist(url, content_type) ==
    IF EndsWith(ToLowercase(url), M3u8Suffix) THEN TRUE
    ELSE IF IsSome(content_type)
    THEN LET lower == ToLowercase(content_type[1])
         IN  \/ Contains(lower, VndAppleMpegurl)
             \/ Contains(lower, XMpegurl)
             \/ Contains(lower, Mpegurl)
    ELSE FALSE

\* URLs up to the end of the path:
\* http://h/a.m3u8 | http://h/a.M3U8 | http://h/a.mp3 | http://h/a.m3u | http://h/a
UrlStems ==
    {<<104, 116, 116, 112, 58, 47, 47, 104, 47, 97, 46, 109, 51, 117, 56>>,
     <<104, 116, 116, 112, 58, 47, 47, 104, 47, 97, 46, 77, 51, 85, 56>>,
     <<104, 116, 116, 112, 58, 47, 47, 104, 47, 97, 46, 109, 112, 51>>,
     <<104, 116, 116, 112, 58, 47, 47, 104, 47, 97, 46, 109, 51, 117>>,
     <<104, 116, 116, 112, 58, 47, 47, 104, 47, 97>>}

\* what follows the path: nothing, a query, a fragment, a query that ends
\* in .m3u8, one more (empty) path segment
UrlTails ==
    <<<<>>,
      <<63, 120, 61, 49>>,
      <<35, 102>>,
      <<63, 117, 61, 46, 109, 51, 117, 56>>,
      <<47>>>>

\* Content-Type values:
\* application/vnd.apple.mpegurl | application/x-mpegURL | audio/mpegurl | audio/mpeg | AUDIO/X-MPEGURL; charset=utf-8 | text/html | application/x-mpeg | audio/x-scpls | application/octet-stream
ContentTypes ==
    {<<97, 112, 112, 108, 105, 99, 97, 116, 105, 111, 110, 47, 118, 110, 100, 46, 97, 112, 112, 108, 101, 46, 109, 112, 101, 103, 117, 114, 108>>,
     <<97, 112, 112, 108, 105, 99, 97, 116, 105, 111, 110, 47, 120, 45, 109, 112, 101, 103, 85, 82, 76>>,
     <<97, 117, 100, 105, 111, 47, 109, 112, 101, 103, 117, 114, 108>>,
     <<97, 117, 100, 105, 111, 47, 109, 112, 101, 103>>,
     <<65, 85, 68, 73, 79, 47, 88, 45, 77, 80, 69, 71, 85, 82, 76, 59, 32, 99, 104, 97, 114, 115, 101, 116, 61, 117, 116, 102, 45, 56>>,
     <<116, 101, 120, 116, 47, 104, 116, 109, 108>>,
     <<97, 112, 112, 108, 105, 99, 97, 116, 105, 111, 110, 47, 120, 45, 109, 112, 101, 103>>,
     <<97, 117, 100, 105, 111, 47, 120, 45, 115, 99, 112, 108, 115>>,
     <<97, 112, 112, 108, 105, 99, 97, 116, 105, 111, 110, 47, 111, 99, 116, 101, 116, 45, 115, 116, 114, 101, 97, 109>>}

InitIsHls ==
    /\ RegistryNew /\ IcyClosed /\ HlsClosed
    /\ seek_result = NoSeek /\ HttpNew
    /\ arg \in [stem : UrlStems, tail : 1..Len(UrlTails),
                content_type : {None} \cup {Some(c) : c \in ContentTypes}]
    /\ ret = None

IsHlsPlaylist ==
    /\ ret = None
    /\ ret' = Some(is_hls_playlist(arg.stem \o UrlTails[arg.tail],
                                   arg.content_type))
    /\ UNCHANGED <<icyVars, regVars, hlsVars, seek_result, arg, httpVars>>

NextIsHls == IsHlsPlaylist

SpecIsHls == InitIsHls /\ [][NextIsHls]_vars

\* the path of a URL: what stands before its query and its fragment
PathOf(url) ==
    LET cut == {i \in 1..Len(url) : url[i] \in {35, 63}}
    IN  IF cut = {} THEN url
        ELSE SubSeq(url, 1, (CHOOSE i \in cut : \A j \in cut : i <= j) - 1)

\* C30 as claimed: is_hls_playlist is true exactly when the path of the URL
\* ends in .m3u8 in any case, whatever query or fragment follows the path,
\* or the content type contains mpegurl.
C30_PathOrContentType ==
    IsSome(ret) =>
        (ret[1] <=>
            \/ EndsWith(ToLowercase(PathOf(arg.stem \o UrlTails[arg.tail])),
                        M3u8Suffix)
            \/ /\ IsSome(arg.content_type)
               /\ Contains(ToLowercase(arg.content_type[1]), Mpegurl))

(***************************************************************************)
(* Further properties of the readers                                       *)
(***************************************************************************)
\* C31: a read of the IcyMetadataReader with a non-empty buffer returns 0
\* only when the inner source had nothing left, at the length byte or at the
\* audio read; a read that passed a length byte (L > 0 or L = 0) with bytes
\* left behind it returns at least one of them.
C31_ZeroOnlyAtEndOfStream ==
    /\ [](read_result.kind = "ok" /\ read_result.n = 0 => inner = <<>>)
    /\ [][(read_result'.kind = "ok" /\ read_result'.crossed
           /\ inner' # inner /\ inner' # <<>>)
          => read_result'.n > 0 /\ delivered' # delivered]_vars

\* a stream with a block whose audio was read up to the next length byte,
\* which is missing: the read at the length byte returned 0
C31_Witness ==
    /\ IsSome(meta_interval) /\ Len(blocks) = 1 /\ blocks[1] = 2
    /\ read_result.kind = "ok" /\ read_result.n = 0
    /\ ~read_result.crossed /\ remaining_until_meta = 0
    /\ inner = <<>> /\ Len(metadata_events) = 2
    /\ Len(delivered) = 2 * meta_interval[1]

\* C32: the position of either reader never decreases and is the number of
\* bytes the reader has returned so far; a read that returns 0 bytes or an
\* error and a seek leave it as it was.
C32_PositionCountsReturnedBytes ==
    /\ [](IF hls_reader.open THEN hls_reader.pos = Len(hist.delivered)
          ELSE pos = Len(delivered))
    /\ [][/\ pos' >= pos /\ hls_reader'.pos >= hls_reader.pos
          /\ (seek_result' # NoSeek /\ seek_result' # seek_result)
                => pos' = pos /\ hls_reader'.pos = hls_reader.pos
          /\ (read_result' # read_result
              /\ (read_result'.kind = "err" \/ read_result'.n = 0))
                => pos' = pos
          /\ (hcall' # hcall /\ hcall'.pc = "idle"
              /\ hcall'.result # Pending
              /\ (hcall'.result.tag = "Ok" => hcall'.result.val = <<0>>))
                => hls_reader'.pos = hls_reader.pos]_vars

\* a StreamReader that returned two bytes or more, then 0 at the end of the
\* stream, and then refused a seek from the end: its position is the count
C32_Witness ==
    /\ ~hls_reader.open /\ pos >= 2 /\ pos = Len(delivered)
    /\ read_result.kind = "ok" /\ read_result.n = 0
    /\ seek_result.reader = "stream" /\ seek_result.from = "End"
    /\ seek_result.result.tag = "Unsupported"

\* C33 as claimed: a read that fails on a segment (the segment is refused
\* by validate_hls_segment, its URI does not resolve, or its GET fails)
\* leaves the cursor at that segment or before it, so that the next read
\* asks for the same segment.
C33_FailedSegmentNotSkipped ==
    [][/\ (/\ hcall.pc = "cursor" /\ hcall'.pc = "idle"
           /\ \/ hcall'.result.tag = "InvalidUrl"
              \/ hcall'.result.tag = "Playlist" /\ hcall'.result.val # <<>>)
          => (IsSome(hls_reader'.next_sequence)
              => hls_reader'.next_sequence[1]
                    <= hcall'.playlist[1].media_sequence + hcall'.index)
       /\ (/\ hcall.pc = "request" /\ hcall'.pc = "idle"
           /\ hcall'.result.tag # "Ok")
          => (IsSome(hls_reader'.next_sequence)
              => hls_reader'.next_sequence[1] <= hcall.seg)]_vars


\* ---------------------------------------------------------------------
\* Callbacks and the registry lock
\* ---------------------------------------------------------------------

\* thread t is inside with_player / with_player_mut / register / unregister
HoldsLock(t) == thr[t].pc \in CsPcs

\* the step calls a method of a callback on thread t
Invokes(t) ==
    /\ thr'[t].events # thr[t].events
    /\ thr'[t].events # <<>>

\* C34: no session operation invokes on_event, on_error or on_metadata while
\* it holds the registry lock: every step that invokes a callback is taken
\* by a thread outside its critical sections, whoever else holds the lock,
\* and the thread does not hold the lock afterwards either, so a callback
\* that re-enters the registry finds no lock held by its own thread.
C34_CallbackOutsideLock ==
    /\ [](\A t \in Threads : HoldsLock(t) => locked)
    /\ [][\A t \in Threads :
            Invokes(t) => ~HoldsLock(t) /\ ~HoldsLock(t)' /\ locked' = locked]_vars

\* a callback is told Playing while the other thread is inside a closure
C34_Witness ==
    \E t, u \in Threads :
        /\ t # u
        /\ HoldsLock(u) /\ locked
        /\ thr[t].pc = "done"
        /\ Len(thr[t].events) >= 2
        /\ thr[t].events[Len(thr[t].events)][3] = "Playing"


\* ---------------------------------------------------------------------
\* A session that already has a callback
\* ---------------------------------------------------------------------

\* The registry after create_player() on thread t1 returned handle 1 and
\* player_set_callback(1, c1) returned.
RegistryAttached ==
    /\ NEXT_ID = 2
    /\ players = InsertPlayer(<<>>, 1, [NewPlayer EXCEPT !.callback = Some("c1")])
    /\ locked = FALSE
    /\ streams = [t \in Threads |-> IF t = "t1" THEN {1} ELSE {}]
    /\ thr = [t \in Threads |-> Idle]
    /\ calls = 0
    /\ returned = <<1>>
    /\ destroyed = {}

InitAttached == RegistryAttached /\ IcyClosed /\ HlsClosed /\ Quiet

SpecAttached == InitAttached /\ [][Next]_vars

\* a player_set_callback or player_clear_callback on the session is under way
Replacing(id) ==
    \E u \in Threads :
        /\ thr[u].op \in {"player_set_callback", "player_clear_callback"}
        /\ thr[u].id = id

\* C35 as claimed: once player_clear_callback or player_set_callback on a
\* session has returned, the callback it replaced is never invoked again for
\* that session: whenever a call on a live session invokes a callback while
\* no replacement is under way, it invokes the one the session holds.
C35_ReplacedCallbackSilent ==
    [][\A t \in Threads :
          (/\ Invokes(t)
           /\ thr[t].id \in DOMAIN players
           /\ ~Replacing(thr[t].id))
          => players[thr[t].id].callback =
                 Some(thr'[t].events[Len(thr'[t].events)][1])]_vars


\* thread t's step is the return of a with_player_mut closure that succeeded
ClosureSucceeds(t) ==
    /\ HoldsLock(t) /\ ~HoldsLock(t)'
    /\ thr'[t].result.tag = "Ok"

\* C36 as claimed: when the closure of a successful player_play_url (looped
\* or not), player_play_radio or player_play_sine, or of player_stop or
\* player_clear, returns, the session is not seekable, whatever was played
\* before; and a session becomes seekable only in the closure of a
\* player_play_file that is not looped.
C36_OnlyPlainFileSeekable ==
    [][/\ \A t \in Threads :
            (/\ ClosureSucceeds(t)
             /\ thr[t].op \in {"player_play_url", "player_play_radio",
                               "player_play_sine", "player_stop",
                               "player_clear"})
            => ~players'[thr[t].id].seekable
       /\ \A id \in DOMAIN players \cap DOMAIN players' :
            (~players[id].seekable /\ players'[id].seekable)
            => \E t \in Threads :
                  /\ thr[t].op = "player_play_file" /\ ~thr[t].looped
                  /\ thr[t].id = id /\ thr[t].pc = "closure"]_vars


\* the result of thread t's call is an error
Failed(r) == r.result.tag \notin {"Ok", "none"}

\* the step is one of thread t's play call
PlayStep(t) == thr'[t] # thr[t] /\ thr'[t].op \in PlayOps

\* C37: a play call that returns an error leaves every session as it was:
\* the step at which the call fails and every later step of it change no
\* session, the steps before it change none either, because a play call
\* changes a session only inside its closure and a closure that has stored
\* a field always goes on to append and to succeed; and a play call whose
\* session was destroyed while it fetched gets PlayerNotFound from the
\* closure, which appends to no session.
C37_FailedPlayChangesNothing ==
    /\ [](\A t \in Threads :
            (thr[t].op \in PlayOps /\ Failed(thr[t]))
            => thr[t].pc \in {"notify", "done"})
    /\ [][\A t \in Threads :
            PlayStep(t) =>
              /\ Failed(thr'[t]) => players' = players /\ thr[t].pc # "append"
              /\ players' # players => thr[t].pc \in {"closure", "append"}
              /\ thr[t].pc = "append"
                 => /\ thr'[t].result = Ok(<<>>)
                    /\ thr'[t].pc = "notify"
              /\ (thr[t].pc = "closure" /\ thr[t].id \notin DOMAIN players)
                 => /\ thr'[t].result = PlayerNotFound(thr[t].id)
                    /\ players' = players]_vars

\* player_play_radio on the session with callback c1 has fetched its stream,
\* the session was destroyed meanwhile, and the call has returned
\* PlayerNotFound after telling c1; no session holds its source
C37_Witness ==
    \E t \in Threads :
        /\ thr[t].pc = "done" /\ thr[t].op = "player_play_radio"
        /\ thr[t].id = 1 /\ ~thr[t].gone /\ 1 \in destroyed
        /\ IsSome(thr[t].src)
        /\ thr[t].result = PlayerNotFound(1)
        /\ thr[t].events[1] = <<"c1", "on_event", "Connecting">>
        /\ thr[t].events[Len(thr[t].events)] = <<"c1", "on_error", "PlayerNotFound">>
        /\ \A id \in DOMAIN players : players[id].sink.queue = <<>>


\* the calls thread t's call has made to its callback so far with one of the
\* given methods and values
Told(r, method, whats) ==
    {i \in 1..Len(r.events) : r.events[i][2] = method /\ r.events[i][3] \in whats}

ErrorTags == {"PlayerNotFound", "HttpStatus", "Decoder", "Playlist", "Io"}

\* C38: a player_play_url or player_play_radio that found a callback on its
\* session tells that callback Connecting first, before it fetches anything,
\* and nothing else until the fetch; when it returns it has told the
\* callback Connecting once, then exactly one of Playing, if it returns Ok,
\* or on_error with the error it returns: never Playing for a failing call,
\* never on_error for a succeeding one, and always the callback it read.
C38_ConnectingThenOneOutcome ==
    \A t \in Threads :
        (thr[t].op \in {"player_play_url", "player_play_radio"} /\ IsSome(thr[t].cb))
        => LET r == thr[t]
               connecting == <<r.cb[1], "on_event", "Connecting">>
               playing == Told(r, "on_event", {"Playing"})
               errors == Told(r, "on_error", ErrorTags)
           IN  /\ r.pc = "connecting" => r.events = <<>>
               /\ r.pc = "fetch" => r.events = <<connecting>>
               /\ r.pc # "connecting" =>
                     /\ r.events # <<>>
                     /\ r.events[1] = connecting
                     /\ Told(r, "on_event", {"Connecting"}) = {1}
               /\ \A i \in 1..Len(r.events) : r.events[i][1] = r.cb[1]
               /\ r.pc # "done" => playing = {} /\ errors = {}
               /\ r.pc = "done" =>
                     IF r.result.tag = "Ok"
                     THEN /\ playing = {Len(r.events)}
                          /\ errors = {}
                     ELSE /\ errors = {Len(r.events)}
                          /\ playing = {}
                          /\ r.events[Len(r.events)][3] = r.result.tag

\* one thread's player_play_url has returned Ok after Connecting and Playing,
\* the other's player_play_radio has returned a decoder error after
\* Connecting, a metadata notification and on_error
C38_Witness ==
    \E t, u \in Threads :
        /\ thr[t].pc = "done" /\ thr[t].op = "player_play_url"
        /\ thr[t].result.tag = "Ok"
        /\ thr[t].events = << <<"c1", "on_event", "Connecting">>,
                              <<"c1", "on_event", "Playing">> >>
        /\ thr[u].pc = "done" /\ thr[u].op = "player_play_radio"
        /\ thr[u].result.tag = "Decoder"
        /\ thr[u].events = << <<"c1", "on_event", "Connecting">>,
                              <<"c1", "on_metadata", "icy">>,
                              <<"c1", "on_error", "Decoder">> >>

\* C11 as claimed: a play call that began on a session with a callback
\* attached and returned an error, whatever the cause, has invoked on_error
\* of that callback with the error it returned.
C11_PlayErrorAlsoNotified ==
    \A t \in Threads :
        (/\ thr[t].pc = "done" /\ thr[t].op \in PlayOps
         /\ thr[t].result.tag # "Ok" /\ IsSome(thr[t].attached))
        => \E i \in 1..Len(thr[t].events) :
              thr[t].events[i] =
                  <<thr[t].attached[1], "on_error", thr[t].result.tag>>

====
